---- MODULE Spec2Model ----
(***************************************************************************)
(* Model of the adaptive error-mitigation core: the dynamical-decoupling   *)
(* pulse inserter (notebooks/DD/dd_insert_cust.py), the batch estimator    *)
(* (primitives/adaptive_estimator.py), the heuristic orchestrator and its  *)
(* MEM/DD/ZNE selectors (mitigation/), and the layout mapper               *)
(* (analytics/layout_mapping.py).                                          *)
(*                                                                         *)
(* Floating-point quantities are carried in fixed point: probabilities    *)
(* and error rates in units of 1/SCALE.  Durations are integers in dt.     *)
(***************************************************************************)
EXTENDS Integers, Sequences, FiniteSets, TLC

\* ------------------------------------------------------------------------
\* Bounds of the model
\* ------------------------------------------------------------------------
NumQubits == 2
MaxOps == 3
MaxDelay == 16
MaxSeqLen == 2
MaxPubs == 3
MaxBMOps == 2
MaxPopulation == 4
MaxCouplingMap == 3
MaxIdleOps == 3
MaxFeatOps == 3
MaxActOps == 3
MantissaBits == 8

\* ------------------------------------------------------------------------
\* Program constants
\* ------------------------------------------------------------------------
\* fixed-point unit: a value v stands for the real number v / SCALE
SCALE == 10000
\* ExecutionConfig.__init__ default t2_threshold_ratio = 0.001
T2_THRESHOLD_RATIO == 10
\* _calculate_dd_pulses: D_min_delay = 1
D_min_delay == 1
\* _calculate_dd_pulses: n_pi_candidate > 2 stops the search
MAX_N_PI == 2

\* config.py (error rates and scores in units of 1/SCALE)
DEFAULT_SHOTS == 4096
READOUT_ERROR_THRESHOLD == 100
NUM_RANDOMIZATIONS == 32
ZNE_MIN_THRESHOLD == 2000
ZNE_MAX_THRESHOLD == 15000
ZNE_NOISE_FACTORS == <<1, 3, 5>>
ZNE_EXTRAPOLATOR == "exponential"
ZNE_AMPLIFIER == "gate_folding"

\* Python None, for the optional integers of the program
None == -1
\* Python None where a string is expected
NoneStr == "None"

Qubits == 0 .. (NumQubits - 1)

VARIABLES
    \* --- DynamicalDecoupler / ExecutionConfig -------------------------
    isa_qc,             \* cfg.isa_qc: the scheduled input circuit (sequence of instructions)
    isa_layout,         \* cfg.isa_qc.layout
    t2_map,             \* cfg.t2_map: qubit -> T2 in dt, for the qubits with t2 > 0
    target_x,           \* cfg.target["x"]: qubit -> [present, duration, error]
    min_sequence_length,\* len(cfg.dd_sequence_base)
    node,               \* index of the next op node of the loop in run()
    qubits_initialized, \* run(): set of qubits that had a non-delay 1-qubit op
    dag,                \* run(): per node, the instructions that now stand in its place
    new_qc,             \* run(): the returned circuit [returned, ops, layout]
    pcDD,               \* "idle" | "loop" | "done"
    \* --- one idle window: _calculate_dd_pulses + _create_replacement_circuit
    win,                \* inputs [T_idle, T2, d_x, e_x, L]
    winN,               \* result of _calculate_dd_pulses (None or n > 0)
    winOut,             \* instructions of the replacement circuit
    pcWin,              \* "start" | "counted" | "built" | "kept"
    \* --- adaptive_estimator.run ----------------------------------------
    pubs,               \* the pubs argument: per pub its circuit and what its processing does
    pub_i,              \* loop index i (1-based)
    batch_results,      \* the local list batch_results
    selector_calls,     \* pubs for which select_mitigation_options was called
    jobs_submitted,     \* pubs for which estimator.run was called
    run_return,         \* [returned, value]: what run() handed back to its caller
    pcRun,              \* "loop" | "returned" | "raised"
    \* --- select_mitigation_options --------------------------------------
    config,             \* config attributes the strategies read that config.py does not set
    sel_in,             \* arguments and what the collaborators report for them
    max_readout_error,  \* local of select_mitigation_options
    max_readout_qubit,  \* local, [bound, value]: unbound until line 83 assigns it
    combined_options,   \* local dict combined_options
    isa_qc_scheduled,   \* local: the circuit after schedule_circuit_if_needed
    final_circuit,      \* local: the circuit handed to ZNE and returned
    twirling_fragment,  \* local: what get_mem_options returned
    zne_options,        \* local: zne_result["zne_options"]
    zne_circuit,        \* the circuit get_zne_options was called on
    sel_return,         \* [returned, final_options, final_circuit]
    pcSel,              \* position in select_mitigation_options
    \* --- layout_mapping.get_qubit_layout_mapping ------------------------
    circuit,            \* the circuit argument (circuit.data)
    transpiled_layout,  \* transpiled_circuit.layout: [present, l2p_list]
    logical_to_physical_map, \* local dict logical index -> physical index
    physical_qubits_used,    \* local sorted list of the mapped physical qubits
    lm_results,         \* the dict get_qubit_layout_mapping returned
    lm_i,               \* index of the next instruction of the for loop
    physical_qubit_activity, \* dict physical qubit -> count of 1-qubit gates
    physical_link_activity,  \* dict link tuple -> count of 2-qubit gates
    pcLM,               \* "start" | "loop" | "done"
    \* --- backend_characterization.extract_backend_metrics ---------------
    bm_in,              \* arguments: transpiled_circuit and what the backend reports
    layout_data,        \* local: what get_qubit_layout_mapping returned
    bm_q,               \* index into phys_qubits of the loop of section B
    qubit_data,         \* local dict qubit -> dict field -> value
    readout_errors_list,   \* the TrackedMetric lists, as (value, location) pairs
    one_q_errors_list,
    one_q_duration_list,
    t1_relaxation_list,
    t2_dephasing_list,
    p10_error_list,
    p01_error_list,
    link_data,          \* local dict link -> dict field -> value
    two_q_errors_list,
    two_q_duration_list,
    bm_results,         \* the dict results, once returned
    pcBM,               \* "start" | "qubits" | "links" | "aggregate" | "done"
    \* --- noise_sensitivity._identify_noise_hotspots ----------------------
    qubit_sensitivity,  \* argument: dict qubit -> score
    link_sensitivity,   \* argument: dict link -> score
    hotspots,           \* [returned, qubits, pairs]: the dict returned
    pcHS,               \* "call" | "done"
    \* --- noise_sensitivity.calculate_derived_noise_metrics ---------------
    ns_in,              \* what get_qubit_layout_mapping and extract_backend_metrics return
    ns_results,         \* local dict results
    pcNS,               \* "stress" | "sensitivity" | "hotspots" | "done" | "raised"
    \* --- qubit_idling.analyze_qubit_idling -------------------------------
    idl_in,             \* the scheduled circuit and what the backend reports
    t2_map_sec,         \* local dict qubit -> T2, for the qubits with t2 > 0
    idl_i,              \* index of the next instruction of the loop of line 92
    delay_accumulator,  \* local dict qubit -> accumulated delay in dt
    used_qubit_idxs,    \* local set of the qubits some instruction touches
    idl_todo,           \* the qubits "for qidx in used_qubit_idxs" has yet to visit
    result,             \* local dict qubit -> [t2_dt, idle_dt, decoher_err_prob]
    max_ratio_qubit_metrics, \* local dict, {} until a ratio exceeds max_ratio
    max_ratio,          \* local, the fraction [num, den]
    processed_qubit_count,
    t2_dt_list,
    delay_dt_list,
    idl_return,         \* what analyze_qubit_idling handed back
    pcIdl,              \* "start" | "accumulate" | "qubits" | "done" | "raised"
    \* --- circuit_features.extract_basic_features ------------------------
    cf_circuit,         \* circuit.data as [name, qubits, duration]
    cf_i,               \* index of the next instruction of the loop
    num_1q_gates,
    num_2q_gates,
    unitary_size,
    features,           \* the returned dict [returned, num_1q_gates, ...]
    pcCF,               \* "off" | "loop" | "done"
    \* --- qubit_idling.analyze_qubit_activity ----------------------------
    act_in,             \* [circuit, durations_ok]
    act_layers,         \* dag.layers(): per layer the indices of its op nodes
    layer_index,        \* index of the next layer of the pass (1-based)
    gate_count_layer,   \* the per-qubit lists of section 2
    lifespan_count_layer,
    gate_duration_dt,
    lifespan_duration_dt,
    is_started,
    is_measured,
    current_idle_duration_dt,
    idle_block_lists,
    act_return,         \* the returned dict of four maps
    pcAct               \* "off" | "start" | "loop" | "done" | "raised"

ddVars == <<isa_qc, isa_layout, t2_map, target_x, min_sequence_length, node,
            qubits_initialized, dag, new_qc, pcDD>>
winVars == <<win, winN, winOut, pcWin>>
runVars == <<pubs, pub_i, batch_results, selector_calls, jobs_submitted,
             run_return, pcRun>>
selVars == <<config, sel_in, max_readout_error, max_readout_qubit,
             combined_options, isa_qc_scheduled, final_circuit,
             twirling_fragment, zne_options, zne_circuit, sel_return, pcSel>>
lmVars == <<circuit, transpiled_layout, logical_to_physical_map,
            physical_qubits_used, lm_results, lm_i, physical_qubit_activity,
            physical_link_activity, pcLM>>
bmVars == <<bm_in, layout_data, bm_q, qubit_data, readout_errors_list,
            one_q_errors_list, one_q_duration_list, t1_relaxation_list,
            t2_dephasing_list, p10_error_list, p01_error_list, link_data,
            two_q_errors_list, two_q_duration_list, bm_results, pcBM>>
hsVars == <<qubit_sensitivity, link_sensitivity, hotspots, pcHS>>
nsVars == <<ns_in, ns_results, pcNS>>
idlVars == <<idl_in, t2_map_sec, idl_i, delay_accumulator, used_qubit_idxs,
             idl_todo, result, max_ratio_qubit_metrics, max_ratio,
             processed_qubit_count, t2_dt_list, delay_dt_list, idl_return, pcIdl>>
cfVars == <<cf_circuit, cf_i, num_1q_gates, num_2q_gates, unitary_size, features, pcCF>>
actVars == <<act_in, act_layers, layer_index, gate_count_layer, lifespan_count_layer, gate_duration_dt, lifespan_duration_dt, is_started, is_measured, current_idle_duration_dt, idle_block_lists, act_return, pcAct>>
vars == <<ddVars, winVars, runVars, selVars, lmVars, bmVars, hsVars, nsVars,
          idlVars, cfVars, actVars>>

\* ------------------------------------------------------------------------
\* Circuit instructions (qiskit CircuitInstruction: operation name, qubits,
\* duration of a Delay)
\* ------------------------------------------------------------------------
Instr(name, qubits, duration) ==
    [name |-> name, qubits |-> qubits, duration |-> duration]

DelayInstr(q, d) == Instr("delay", <<q>>, d)
PulseInstr(q, k) == Instr("x", <<q>>, k)

RECURSIVE SumDur(_)
\* total duration of the delays of an instruction sequence
SumDur(ops) ==
    IF ops = << >> THEN 0
    ELSE (IF Head(ops).name = "delay" THEN Head(ops).duration ELSE 0)
         + SumDur(Tail(ops))

RECURSIVE CountName(_, _)
CountName(ops, nm) ==
    IF ops = << >> THEN 0
    ELSE (IF Head(ops).name = nm THEN 1 ELSE 0) + CountName(Tail(ops), nm)

\* ------------------------------------------------------------------------
\* np.exp(-num/den) in fixed point: Taylor series of exp(-x), x = num/den,
\* evaluated on integers scaled by SCALE (arguments here satisfy x <= 1).
\* ------------------------------------------------------------------------
RECURSIVE ExpSeries(_, _, _, _)
ExpSeries(x, term, k, acc) ==
    IF k > 8 \/ term = 0 THEN acc
    ELSE LET t == (term * x) \div (k * SCALE)
         IN ExpSeries(x, t, k + 1, IF k % 2 = 1 THEN acc - t ELSE acc + t)

ExpNeg(num, den) == ExpSeries((num * SCALE) \div den, SCALE, 1, SCALE)

\* 1 - exp(-num/den)
DecohProb(num, den) == SCALE - ExpNeg(num, den)

\* ------------------------------------------------------------------------
\* DynamicalDecoupler._calculate_dd_pulses
\* ------------------------------------------------------------------------
\* the check of the time the pulses need left out
StopSearch_NoTimeCheck(n, T_idle_dt, Q_T2_dt, d_x, e_x) ==
    LET tot_gate_err == n * e_x
        decoher_err_prob == DecohProb(T_idle_dt, (4 * n + 1) * Q_T2_dt)
    IN \/ tot_gate_err >= 2 * decoher_err_prob
       \/ n > MAX_N_PI

\* the cap on the candidate left out
StopSearch_NoCap(n, T_idle_dt, Q_T2_dt, d_x, e_x) ==
    LET total_time_needed == (n * d_x) + ((3 * n + 1) * D_min_delay)
        tot_gate_err == n * e_x
        decoher_err_prob == DecohProb(T_idle_dt, (4 * n + 1) * Q_T2_dt)
    IN \/ total_time_needed > T_idle_dt
       \/ tot_gate_err >= 2 * decoher_err_prob

\* the three stop conditions of the while loop, for candidate n
StopSearch(n, T_idle_dt, Q_T2_dt, d_x, e_x) ==
    LET total_time_needed == (n * d_x) + ((3 * n + 1) * D_min_delay)
        tot_gate_err == n * e_x
        decoher_err_prob == DecohProb(T_idle_dt, (4 * n + 1) * Q_T2_dt)
    IN \/ total_time_needed > T_idle_dt
       \/ tot_gate_err >= 2 * decoher_err_prob
       \/ n > MAX_N_PI

RECURSIVE SearchPulses(_, _, _, _, _, _)
SearchPulses(n_pi, L, T_idle_dt, Q_T2_dt, d_x, e_x) ==
    LET n_pi_candidate == n_pi + L
    IN IF StopSearch(n_pi_candidate, T_idle_dt, Q_T2_dt, d_x, e_x)
       THEN n_pi
       ELSE SearchPulses(n_pi_candidate, L, T_idle_dt, Q_T2_dt, d_x, e_x)

\* xp is the calibration entry of the x gate on the qubit; xp.present is
\* FALSE when cfg.target.get("x", {}).get((qubit_index,), None) is None
calculate_dd_pulses(T_idle_dt, Q_T2_dt, xp, L) ==
    IF DecohProb(T_idle_dt, Q_T2_dt) < T2_THRESHOLD_RATIO THEN None
    ELSE IF ~xp.present THEN None
    ELSE LET n_pi == SearchPulses(0, L, T_idle_dt, Q_T2_dt, xp.duration, xp.error)
         IN IF n_pi > 0 THEN n_pi ELSE None

\* ------------------------------------------------------------------------
\* DynamicalDecoupler._create_replacement_circuit
\* ------------------------------------------------------------------------
RECURSIVE PulseTrain(_, _, _, _, _)
\* the body of "for i in range(n_pi)", from iteration i on
PulseTrain(i, n_pi, tau_dt, L, q) ==
    IF i >= n_pi THEN << >>
    ELSE <<PulseInstr(q, (i % L) + 1)>>
         \o (IF i < n_pi - 1 THEN <<DelayInstr(q, tau_dt)>> ELSE << >>)
         \o PulseTrain(i + 1, n_pi, tau_dt, L, q)

HalfTau(tau_dt) == tau_dt \div 2

create_replacement_circuit(n_pi, T_idle_dt, dd_pulse_duration_dt, L, q) ==
    LET total_pulse_time_dt == n_pi * dd_pulse_duration_dt
        tau_total_dt == T_idle_dt - total_pulse_time_dt
        num_intervals == n_pi
        tau_dt == tau_total_dt \div num_intervals
        half_tau_dt == HalfTau(tau_dt)
        remainder_dt == tau_total_dt % num_intervals
        initial_slack == remainder_dt \div 2
        final_slack == remainder_dt - initial_slack
    IN <<DelayInstr(q, half_tau_dt + initial_slack)>>
       \o PulseTrain(0, n_pi, tau_dt, L, q)
       \o <<DelayInstr(q, half_tau_dt + final_slack)>>

\* ------------------------------------------------------------------------
\* One idle window, as run() treats a candidate delay (lines 177-187)
\* ------------------------------------------------------------------------
PulseDurations == {2, 3}
PulseErrors == {1, 400}
T2Values == {50, 100000}
SeqLens == 1 .. MaxSeqLen

WinInputs ==
    [T_idle : 1 .. MaxDelay, T2 : T2Values, has_x : BOOLEAN,
     d_x : PulseDurations, e_x : PulseErrors, L : SeqLens]

XProps(present, d, e) == [present |-> present, duration |-> d, error |-> e]

WinXProps(w) == XProps(w.has_x, w.d_x, w.e_x)

NoWin == [T_idle |-> 0, T2 |-> 0, has_x |-> FALSE, d_x |-> 0, e_x |-> 0, L |-> 0]

WinIdle ==
    /\ win = NoWin
    /\ winN = None
    /\ winOut = << >>
    /\ pcWin = "off"

InitWin ==
    /\ win \in WinInputs
    /\ winN = None
    /\ winOut = << >>
    /\ pcWin = "start"

\* n_pi = self._calculate_dd_pulses(qubit_index, T_idle_dt)
WinCount ==
    /\ pcWin = "start"
    /\ winN' = calculate_dd_pulses(win.T_idle, win.T2, WinXProps(win), win.L)
    /\ pcWin' = "counted"
    /\ UNCHANGED <<win, winOut>>

\* if n_pi is None: continue  (the delay stays as it is)
WinKeep ==
    /\ pcWin = "counted"
    /\ winN = None
    /\ winOut' = <<DelayInstr(0, win.T_idle)>>
    /\ pcWin' = "kept"
    /\ UNCHANGED <<win, winN>>

\* replacement_qc = self._create_replacement_circuit(...)
WinBuild ==
    /\ pcWin = "counted"
    /\ winN # None
    /\ winOut' = create_replacement_circuit(winN, win.T_idle, win.d_x, win.L, 0)
    /\ pcWin' = "built"
    /\ UNCHANGED <<win, winN>>

NoCircuit == [returned |-> FALSE, ops |-> << >>, layout |-> None]

DDIdle ==
    /\ isa_qc = << >>
    /\ isa_layout = None
    /\ t2_map = << >>
    /\ target_x = << >>
    /\ min_sequence_length = 0
    /\ node = 0
    /\ qubits_initialized = {}
    /\ dag = << >>
    /\ new_qc = NoCircuit
    /\ pcDD = "off"

NoSelCircuit == [scheduled |-> FALSE, dd_applied |-> FALSE, layout |-> None]
NoSelInput ==
    [shots |-> None, circuit |-> NoSelCircuit, empty |-> TRUE, metrics_ok |-> FALSE,
     readout_error |-> 0, crk_density |-> 0, ons |-> 0, qubits_used |-> 0,
     duration |-> 0, t2_avg |-> 0]
NoOptions == [resilience_level |-> 0]

SelIdle ==
    /\ config = [DD_ERROR_THRESHOLD |-> 0, TWIRLING_NUM_RANDOMIZATIONS |-> 0]
    /\ sel_in = NoSelInput
    /\ max_readout_error = 0
    /\ max_readout_qubit = [bound |-> FALSE, value |-> None]
    /\ combined_options = NoOptions
    /\ isa_qc_scheduled = NoSelCircuit
    /\ final_circuit = NoSelCircuit
    /\ twirling_fragment = NoOptions
    /\ zne_options = NoOptions
    /\ zne_circuit = NoSelCircuit
    /\ sel_return = [returned |-> FALSE, final_options |-> NoOptions,
                     final_circuit |-> NoSelCircuit]
    /\ pcSel = "off"

NoLayout == [present |-> FALSE, l2p_list |-> << >>]
NoLMResults ==
    [returned |-> FALSE, empty |-> TRUE, logical_to_physical_map |-> << >>,
     physical_qubits_used |-> << >>, num_physical_qubits_used |-> 0,
     physical_qubit_activity |-> << >>, physical_link_activity |-> << >>]

LMIdle ==
    /\ circuit = << >>
    /\ transpiled_layout = NoLayout
    /\ logical_to_physical_map = << >>
    /\ physical_qubits_used = << >>
    /\ lm_results = NoLMResults
    /\ lm_i = 0
    /\ physical_qubit_activity = << >>
    /\ physical_link_activity = << >>
    /\ pcLM = "off"

NoBackend ==
    [circuit |-> << >>, layout |-> NoLayout,
     properties |-> [present |-> FALSE, failing |-> "none", failing_qubits |-> {}],
     target |-> [present |-> FALSE, sx_error |-> FALSE, cx |-> "forward"]]
NoLayoutData == [empty |-> TRUE, physical_qubits_used |-> << >>, used_links |-> {}]
NoBMResults ==
    [returned |-> FALSE, qubit_properties |-> << >>, link_properties |-> << >>,
     avg_readout_error |-> 0, avg_1q_error |-> 0, avg_2q_error |-> 0,
     avg_1q_duration |-> 0, avg_2q_duration |-> 0, avg_t1_time |-> 0,
     avg_t2_time |-> 0, avg_p10_error |-> 0, avg_p01_error |-> 0,
     max_readout_error |-> 0, max_readout_qubit |-> None,
     max_1q_error |-> 0, max_1q_qubit |-> None,
     max_2q_error |-> 0, max_2q_link |-> None,
     max_p10_error |-> 0, max_p10_qubit |-> None,
     max_p01_error |-> 0, max_p01_qubit |-> None,
     max_1q_duration |-> 0, max_1q_duration_qubit |-> None,
     max_2q_duration |-> 0, max_2q_duration_link |-> None,
     min_t1_time |-> 0, min_t1_qubit |-> None,
     min_t2_time |-> 0, min_t2_qubit |-> None]

BMIdle ==
    /\ bm_in = NoBackend
    /\ layout_data = NoLayoutData
    /\ bm_q = 0
    /\ qubit_data = << >>
    /\ readout_errors_list = << >>
    /\ one_q_errors_list = << >>
    /\ one_q_duration_list = << >>
    /\ t1_relaxation_list = << >>
    /\ t2_dephasing_list = << >>
    /\ p10_error_list = << >>
    /\ p01_error_list = << >>
    /\ link_data = << >>
    /\ two_q_errors_list = << >>
    /\ two_q_duration_list = << >>
    /\ bm_results = NoBMResults
    /\ pcBM = "off"

NoHotspots == [returned |-> FALSE, qubits |-> {}, pairs |-> {}]

HSIdle ==
    /\ qubit_sensitivity = << >>
    /\ link_sensitivity = << >>
    /\ hotspots = NoHotspots
    /\ pcHS = "off"

NoNSInput ==
    [layout_data |-> [empty |-> TRUE, physical_qubit_activity |-> << >>,
                      physical_link_activity |-> << >>],
     backend_data |-> [qubit_properties |-> << >>, link_properties |-> << >>,
                       coupling_map_size |-> 0, avg_2q_error |-> 0,
                       avg_readout_error |-> 0]]
NoNSResults ==
    [returned |-> FALSE, avg_2q_error |-> 0, avg_readout_error |-> 0,
     connectivity_stress |-> 0, overall_noise_sensitivity |-> 0,
     noise_hotspots |-> NoHotspots]

NSIdle ==
    /\ ns_in = NoNSInput
    /\ ns_results = NoNSResults
    /\ pcNS = "off"

NoIdlInput == [circuit |-> << >>, dt_sec |-> None, qubit_properties |-> << >>]
NoQubitMetrics ==
    [present |-> FALSE, qubit_idx |-> None, t2_dt |-> 0, idle_dt |-> 0,
     decoher_err_prob |-> 0]
NoAvgMetrics == [t2_dt |-> 0, idle_dt |-> 0, decoher_err_prob |-> 0]
NoIdlReturn ==
    [returned |-> FALSE, by_qubit |-> << >>, max_ratio_qubit |-> NoQubitMetrics,
     overall_average |-> NoAvgMetrics]

IdlIdle ==
    /\ idl_in = NoIdlInput
    /\ t2_map_sec = << >>
    /\ idl_i = 0
    /\ delay_accumulator = << >>
    /\ used_qubit_idxs = {}
    /\ idl_todo = << >>
    /\ result = << >>
    /\ max_ratio_qubit_metrics = NoQubitMetrics
    /\ max_ratio = [num |-> 0, den |-> 1]
    /\ processed_qubit_count = 0
    /\ t2_dt_list = << >>
    /\ delay_dt_list = << >>
    /\ idl_return = NoIdlReturn
    /\ pcIdl = "off"

NoFeatures ==
    [returned |-> FALSE, num_1q_gates |-> 0, num_2q_gates |-> 0,
     density |-> [num |-> 0, den |-> 1], num_measurements |-> 0]
CFIdle ==
    /\ cf_circuit = << >>
    /\ cf_i = 0
    /\ num_1q_gates = 0
    /\ num_2q_gates = 0
    /\ unitary_size = 0
    /\ features = NoFeatures
    /\ pcCF = "off"

NoActReturn ==
    [returned |-> FALSE, sparsity_by_layer |-> << >>, sparsity_by_time |-> << >>,
     distribution_mean_dt |-> << >>, distribution_sd_dt |-> << >>]
ActIdle ==
    /\ act_in = [circuit |-> << >>, durations_ok |-> FALSE]
    /\ act_layers = << >>
    /\ layer_index = 0
    /\ gate_count_layer = << >>
    /\ lifespan_count_layer = << >>
    /\ gate_duration_dt = << >>
    /\ lifespan_duration_dt = << >>
    /\ is_started = << >>
    /\ is_measured = << >>
    /\ current_idle_duration_dt = << >>
    /\ idle_block_lists = << >>
    /\ act_return = NoActReturn
    /\ pcAct = "off"

RunIdle ==
    /\ pubs = << >>
    /\ pub_i = 0
    /\ batch_results = << >>
    /\ selector_calls = {}
    /\ jobs_submitted = {}
    /\ run_return = [returned |-> FALSE, value |-> << >>]
    /\ pcRun = "off"

InitWindow == InitWin /\ DDIdle /\ RunIdle /\ SelIdle /\ LMIdle /\ BMIdle /\ HSIdle /\ NSIdle /\ IdlIdle /\ CFIdle /\ ActIdle
NextWindow ==
    \/ WinCount /\ UNCHANGED <<ddVars, runVars, selVars, lmVars, bmVars, hsVars, nsVars, idlVars, cfVars, actVars>>
    \/ WinKeep /\ UNCHANGED <<ddVars, runVars, selVars, lmVars, bmVars, hsVars, nsVars, idlVars, cfVars, actVars>>
    \/ WinBuild /\ UNCHANGED <<ddVars, runVars, selVars, lmVars, bmVars, hsVars, nsVars, idlVars, cfVars, actVars>>
SpecWindow == InitWindow /\ [][NextWindow]_vars

\* ------------------------------------------------------------------------
\* DynamicalDecoupler.run over a whole circuit
\* ------------------------------------------------------------------------
CircDelays == {3, MaxDelay}

DDInstrs ==
    {DelayInstr(q, d) : q \in Qubits, d \in CircDelays}
    \cup {Instr("sx", <<q>>, 0) : q \in Qubits}
    \cup {Instr("cx", p, 0) : p \in {pp \in Qubits \X Qubits : pp[1] < pp[2]}}

DDCircuits == UNION {[1 .. n -> DDInstrs] : n \in 0 .. MaxOps}

Layouts == {None, 1}

RECURSIVE Flatten(_)
\* dag_to_circuit: the nodes in order, each with what was substituted for it
Flatten(d) == IF d = << >> THEN << >> ELSE Head(d) \o Flatten(Tail(d))

InitDD ==
    /\ isa_qc \in DDCircuits
    /\ isa_layout \in Layouts
    /\ \E S \in SUBSET Qubits : t2_map = [q \in S |-> 50]
    /\ \E S \in SUBSET Qubits :
           target_x = [q \in Qubits |-> XProps(q \in S, 2, 1)]
    /\ min_sequence_length \in SeqLens
    /\ node = 1
    /\ qubits_initialized = {}
    /\ dag = [i \in DOMAIN isa_qc |-> <<isa_qc[i]>>]
    /\ new_qc = NoCircuit
    /\ pcDD = "loop"

AtNode == pcDD = "loop" /\ node <= Len(isa_qc)
CurOp == isa_qc[node]
CurQubit == CurOp.qubits[1]

\* the check of qubits_initialized left out
DelayIsCandidate_NoInitCheck(q, inited, t2m) == q \in DOMAIN t2m

\* lines 171-175: a delay is a candidate window only on an initialized
\* qubit that has a T2 entry
DelayIsCandidate(q, inited, t2m) == q \in inited /\ q \in DOMAIN t2m

DDFrame == UNCHANGED <<isa_qc, isa_layout, t2_map, target_x, min_sequence_length, new_qc>>

\* if len(node.qargs) != 1: continue
DDSkipMultiQubit ==
    /\ AtNode
    /\ Len(CurOp.qubits) # 1
    /\ node' = node + 1
    /\ UNCHANGED <<qubits_initialized, dag, pcDD>>
    /\ DDFrame

\* if not isinstance(instruction, Delay): qubits_initialized.add(qubit)
DDInitQubit ==
    /\ AtNode
    /\ Len(CurOp.qubits) = 1
    /\ CurOp.name # "delay"
    /\ qubits_initialized' = qubits_initialized \cup {CurQubit}
    /\ node' = node + 1
    /\ UNCHANGED <<dag, pcDD>>
    /\ DDFrame

\* a delay that is skipped: pre-init qubit, no T2, or n_pi is None
DDKeepDelay ==
    /\ AtNode
    /\ Len(CurOp.qubits) = 1
    /\ CurOp.name = "delay"
    /\ \/ ~DelayIsCandidate(CurQubit, qubits_initialized, t2_map)
       \/ /\ DelayIsCandidate(CurQubit, qubits_initialized, t2_map)
          /\ calculate_dd_pulses(CurOp.duration, t2_map[CurQubit],
                                 target_x[CurQubit], min_sequence_length) = None
    /\ node' = node + 1
    /\ UNCHANGED <<qubits_initialized, dag, pcDD>>
    /\ DDFrame

\* dag_to_process.substitute_node_with_dag(node, replacement)
DDSubstitute ==
    /\ AtNode
    /\ Len(CurOp.qubits) = 1
    /\ CurOp.name = "delay"
    /\ DelayIsCandidate(CurQubit, qubits_initialized, t2_map)
    /\ LET n_pi == calculate_dd_pulses(CurOp.duration, t2_map[CurQubit],
                                       target_x[CurQubit], min_sequence_length)
       IN /\ n_pi # None
          /\ dag' = [dag EXCEPT ![node] =
                        create_replacement_circuit(n_pi, CurOp.duration,
                            target_x[CurQubit].duration, min_sequence_length,
                            CurQubit)]
    /\ node' = node + 1
    /\ UNCHANGED <<qubits_initialized, pcDD>>
    /\ DDFrame

\* new_qc = dag_to_circuit(dag_to_process); new_qc._layout = cfg.isa_qc.layout
DDReturn ==
    /\ pcDD = "loop"
    /\ node > Len(isa_qc)
    /\ new_qc' = [returned |-> TRUE, ops |-> Flatten(dag), layout |-> isa_layout]
    /\ pcDD' = "done"
    /\ UNCHANGED <<isa_qc, isa_layout, t2_map, target_x, min_sequence_length,
                   node, qubits_initialized, dag>>

InitDDSpec == InitDD /\ WinIdle /\ RunIdle /\ SelIdle /\ LMIdle /\ BMIdle /\ HSIdle /\ NSIdle /\ IdlIdle /\ CFIdle /\ ActIdle
NextDD ==
    \/ DDSkipMultiQubit /\ UNCHANGED <<winVars, runVars, selVars, lmVars, bmVars, hsVars, nsVars, idlVars, cfVars, actVars>>
    \/ DDInitQubit /\ UNCHANGED <<winVars, runVars, selVars, lmVars, bmVars, hsVars, nsVars, idlVars, cfVars, actVars>>
    \/ DDKeepDelay /\ UNCHANGED <<winVars, runVars, selVars, lmVars, bmVars, hsVars, nsVars, idlVars, cfVars, actVars>>
    \/ DDSubstitute /\ UNCHANGED <<winVars, runVars, selVars, lmVars, bmVars, hsVars, nsVars, idlVars, cfVars, actVars>>
    \/ DDReturn /\ UNCHANGED <<winVars, runVars, selVars, lmVars, bmVars, hsVars, nsVars, idlVars, cfVars, actVars>>
SpecDD == InitDDSpec /\ [][NextDD]_vars

\* a delay at position i of the circuit is a pre-init delay: no non-delay
\* operation touches its qubit at an earlier position
PreInitDelay(i) ==
    /\ isa_qc[i].name = "delay"
    /\ \A j \in 1 .. (i - 1) :
           isa_qc[j].name = "delay"
           \/ \A k \in DOMAIN isa_qc[j].qubits :
                  isa_qc[j].qubits[k] # isa_qc[i].qubits[1]

\* ------------------------------------------------------------------------
\* C2: a delay that precedes the first non-delay operation on its qubit is
\* left as the same single delay, whatever T2 and the other qubits' ops.
\* ------------------------------------------------------------------------
PreInitDelayUntouched ==
    \A i \in DOMAIN isa_qc :
        PreInitDelay(i) => dag[i] = <<isa_qc[i]>>

\* a returned circuit with a leading delay, long enough to be decoupled on
\* an initialized qubit, followed by a gate on the same qubit
PreInitDelayWitness ==
    /\ pcDD = "done"
    /\ Len(isa_qc) >= 2
    /\ PreInitDelay(1)
    /\ isa_qc[2].name = "sx"
    /\ isa_qc[2].qubits = isa_qc[1].qubits
    /\ isa_qc[1].qubits[1] \in DOMAIN t2_map
    /\ calculate_dd_pulses(isa_qc[1].duration, t2_map[isa_qc[1].qubits[1]],
                           target_x[isa_qc[1].qubits[1]], min_sequence_length) # None
    /\ new_qc.ops[1] = isa_qc[1]
    /\ CountName(new_qc.ops, "x") = 0

\* ------------------------------------------------------------------------
\* adaptive_estimator.run(pubs, backend, ...)
\* ------------------------------------------------------------------------
ControlFlowOps == {"if_else", "while_loop", "for_loop", "switch_case"}

\* the circuits of the pubs, as the operation names of isa_qc.data
PubCircuits == {<<"sx", "cx">>, <<"sx", "if_else">>}

\* what processing a pub does: "ok", select_mitigation_options raises, or
\* Estimator(...)/estimator.run raises
PubOutcomes == {"ok", "select_raises", "submit_raises"}

Pubs == [circuit : PubCircuits, outcome : PubOutcomes]

\* only the first instruction is inspected
is_dynamic_first_only(circ) ==
    circ # << >> /\ circ[1] \in ControlFlowOps

\* any(isinstance(inst.operation, ControlFlowOp) for inst in isa_qc.data)
is_dynamic(circ) == \E k \in DOMAIN circ : circ[k] \in ControlFlowOps

DynamicError == [job |-> None, error |-> "Dynamic circuit not supported"]
JobResult(i) == [job |-> i, est_options |-> i]

InitRun ==
    /\ pubs \in UNION {[1 .. n -> Pubs] : n \in 0 .. MaxPubs}
    /\ pub_i = 1
    /\ batch_results = << >>
    /\ selector_calls = {}
    /\ jobs_submitted = {}
    /\ run_return = [returned |-> FALSE, value |-> << >>]
    /\ pcRun = "loop"

AtPub == pcRun = "loop" /\ pub_i <= Len(pubs)

\* if is_dynamic: batch_results.append({...}); continue
RunSkipDynamic ==
    /\ AtPub
    /\ is_dynamic(pubs[pub_i].circuit)
    /\ batch_results' = Append(batch_results, DynamicError)
    /\ pub_i' = pub_i + 1
    /\ UNCHANGED <<pubs, selector_calls, jobs_submitted, run_return, pcRun>>

\* select_mitigation_options, Estimator(...), estimator.run, append
RunProcessPub ==
    /\ AtPub
    /\ ~is_dynamic(pubs[pub_i].circuit)
    /\ pubs[pub_i].outcome = "ok"
    /\ selector_calls' = selector_calls \cup {pub_i}
    /\ jobs_submitted' = jobs_submitted \cup {pub_i}
    /\ batch_results' = Append(batch_results, JobResult(pub_i))
    /\ pub_i' = pub_i + 1
    /\ UNCHANGED <<pubs, run_return, pcRun>>

\* select_mitigation_options raises: nothing in run() catches it
RunSelectRaises ==
    /\ AtPub
    /\ ~is_dynamic(pubs[pub_i].circuit)
    /\ pubs[pub_i].outcome = "select_raises"
    /\ selector_calls' = selector_calls \cup {pub_i}
    /\ pcRun' = "raised"
    /\ UNCHANGED <<pubs, pub_i, batch_results, jobs_submitted, run_return>>

\* estimator.run raises: nothing in run() catches it
RunSubmitRaises ==
    /\ AtPub
    /\ ~is_dynamic(pubs[pub_i].circuit)
    /\ pubs[pub_i].outcome = "submit_raises"
    /\ selector_calls' = selector_calls \cup {pub_i}
    /\ jobs_submitted' = jobs_submitted \cup {pub_i}
    /\ pcRun' = "raised"
    /\ UNCHANGED <<pubs, pub_i, batch_results, run_return>>

\* return batch_results
RunReturn ==
    /\ pcRun = "loop"
    /\ pub_i > Len(pubs)
    /\ run_return' = [returned |-> TRUE, value |-> batch_results]
    /\ pcRun' = "returned"
    /\ UNCHANGED <<pubs, pub_i, batch_results, selector_calls, jobs_submitted>>

InitRunSpec == InitRun /\ DDIdle /\ WinIdle /\ SelIdle /\ LMIdle /\ BMIdle /\ HSIdle /\ NSIdle /\ IdlIdle /\ CFIdle /\ ActIdle
NextRun ==
    \/ RunSkipDynamic /\ UNCHANGED <<ddVars, winVars, selVars, lmVars, bmVars, hsVars, nsVars, idlVars, cfVars, actVars>>
    \/ RunProcessPub /\ UNCHANGED <<ddVars, winVars, selVars, lmVars, bmVars, hsVars, nsVars, idlVars, cfVars, actVars>>
    \/ RunSelectRaises /\ UNCHANGED <<ddVars, winVars, selVars, lmVars, bmVars, hsVars, nsVars, idlVars, cfVars, actVars>>
    \/ RunSubmitRaises /\ UNCHANGED <<ddVars, winVars, selVars, lmVars, bmVars, hsVars, nsVars, idlVars, cfVars, actVars>>
    \/ RunReturn /\ UNCHANGED <<ddVars, winVars, selVars, lmVars, bmVars, hsVars, nsVars, idlVars, cfVars, actVars>>
SpecRun == InitRunSpec /\ [][NextRun]_vars

\* ------------------------------------------------------------------------
\* C3: a pub with dynamic control flow gets the record {job: None, error}
\* with neither the selector called nor a job submitted for it; it never
\* stops the loop, every pub handled so far has its own record at its own
\* position (a job result for a processed pub), and what run returns has
\* one record per pub in pub order.
\* ------------------------------------------------------------------------
\* the circuit holds a dynamic control-flow operation somewhere
ContainsControlFlow(circ) ==
    {k \in DOMAIN circ : circ[k] \in ControlFlowOps} # {}

FailureIsolated ==
    /\ pcRun # "raised"
    /\ \A k \in DOMAIN pubs :
           (k < pub_i /\ ~ContainsControlFlow(pubs[k].circuit) /\ pubs[k].outcome # "ok")
               => "error" \in DOMAIN batch_results[k]

\* ------------------------------------------------------------------------
\* Strategy selectors
\* ------------------------------------------------------------------------
\* dict.update: the keys of d replace or extend those of self
DictUpdate(self, d) == d @@ self

\* math.ceil(a / b) for a >= 0 and b > 0
CeilDiv(a, b) == (a + b - 1) \div b

Max(a, b) == IF a >= b THEN a ELSE b

\* a value Python treats as true in "if value:" (neither None nor 0)
Truthy(v) == v # None /\ v # 0

ShotsValue(total_shots) ==
    IF total_shots = None THEN DEFAULT_SHOTS ELSE total_shots

\* the boundary value left out
MemEnabled_Strict(readout_error) == readout_error > READOUT_ERROR_THRESHOLD

\* mem_strategy.py line 49
MemEnabled(readout_error) == readout_error >= READOUT_ERROR_THRESHOLD

get_mem_options(readout_error, readout_qubit, total_shots) ==
    LET shots_value == ShotsValue(total_shots)
        shots_per_randomization == CeilDiv(shots_value, NUM_RANDOMIZATIONS)
        enable_measure == MemEnabled(readout_error)
        resilience_fragment ==
            IF enable_measure
            THEN [resilience |->
                    [measure_mitigation |-> TRUE,
                     measure_noise_learning |->
                        [num_randomizations |-> NUM_RANDOMIZATIONS,
                         shots_per_randomization |-> shots_value]]]
            ELSE [resilience |-> [measure_mitigation |-> FALSE]]
    IN [twirling |->
            [enable_gates |-> FALSE,
             enable_measure |-> enable_measure,
             num_randomizations |-> NUM_RANDOMIZATIONS,
             shots_per_randomization |-> shots_per_randomization],
        resilience_fragment |-> resilience_fragment]

\* circuit_utils.schedule_circuit_if_needed: a scheduled circuit is returned
\* as it is, otherwise the scheduled copy gets the original layout
\* the layout of the pass manager's output kept: no layout restored
schedule_circuit_if_needed_NoRestore(c) ==
    IF c.scheduled THEN c
    ELSE [scheduled |-> TRUE, dd_applied |-> c.dd_applied, layout |-> None]

\* circuit_utils.schedule_circuit_if_needed
schedule_circuit_if_needed(c) ==
    IF c.scheduled THEN c
    ELSE [scheduled |-> TRUE, dd_applied |-> c.dd_applied, layout |-> c.layout]

\* the options marking DD as enabled when the circuit is rewritten
get_dd_options_EnableSet(metric, cfg, c) ==
    LET original_layout == c.layout
        enabled == metric >= cfg.DD_ERROR_THRESHOLD
    IN [dd_options |-> [dynamical_decoupling |-> [enable |-> enabled]],
        dd_circuit |->
            IF enabled
            THEN [present |-> TRUE,
                  circuit |-> [scheduled |-> c.scheduled, dd_applied |-> TRUE,
                               layout |-> original_layout]]
            ELSE [present |-> FALSE, circuit |-> NoSelCircuit]]

\* dd_strategy.get_dd_options; its first argument is the metric the caller
\* passes (select_mitigation_options passes the circuit density)
get_dd_options(metric, cfg, c) ==
    LET original_layout == c.layout
        enabled == metric >= cfg.DD_ERROR_THRESHOLD
    IN [dd_options |-> [dynamical_decoupling |-> [enable |-> FALSE]],
        dd_circuit |->
            IF enabled
            THEN [present |-> TRUE,
                  circuit |-> [scheduled |-> c.scheduled, dd_applied |-> TRUE,
                               layout |-> original_layout]]
            ELSE [present |-> FALSE, circuit |-> NoSelCircuit]]

\* zne_strategy.calculate_h_zne: h_zne = ons + qubits_used * (duration / t2_avg)
\* kept as the exact fraction num / den (in units of 1/SCALE); t2_avg = 0
\* makes the division raise
\* the division by avg_t2_time = 0 taken as giving a number
HZneRaises_Never(inp) == FALSE

HZneRaises(inp) == inp.t2_avg = 0
HZneNum(inp) == inp.ons * inp.t2_avg + inp.qubits_used * inp.duration * SCALE
HZneDen(inp) == inp.t2_avg

\* the upper boundary value left out
ZneEnabled_OpenAbove(inp) ==
    /\ ZNE_MIN_THRESHOLD * HZneDen(inp) <= HZneNum(inp)
    /\ HZneNum(inp) < ZNE_MAX_THRESHOLD * HZneDen(inp)

\* zne_strategy.py line 94: ZNE_MIN_THRESHOLD <= h_zne <= ZNE_MAX_THRESHOLD
ZneEnabled(inp) ==
    /\ ZNE_MIN_THRESHOLD * HZneDen(inp) <= HZneNum(inp)
    /\ HZneNum(inp) <= ZNE_MAX_THRESHOLD * HZneDen(inp)

get_zne_options(inp, cfg, total_shots) ==
    LET shots_value == ShotsValue(total_shots)
        shots_per_randomization ==
            CeilDiv(shots_value, cfg.TWIRLING_NUM_RANDOMIZATIONS)
    IN IF ZneEnabled(inp)
       THEN [resilience_level |-> 2,
             zne_mitigation |-> TRUE,
             zne |-> [amplifier |-> ZNE_AMPLIFIER,
                      noise_factors |-> ZNE_NOISE_FACTORS,
                      extrapolator |-> ZNE_EXTRAPOLATOR],
             twirling |-> [enable_gates |-> TRUE,
                           num_randomizations |-> cfg.TWIRLING_NUM_RANDOMIZATIONS,
                           shots_per_randomization |-> shots_per_randomization]]
       ELSE [resilience_level |-> 0,
             zne_mitigation |-> FALSE,
             zne |-> [amplifier |-> NoneStr,
                      noise_factors |-> << >>,
                      extrapolator |-> NoneStr],
             twirling |-> [enable_gates |-> FALSE,
                           num_randomizations |-> None,
                           shots_per_randomization |-> None]]

\* ------------------------------------------------------------------------
\* heuristics_selector.select_mitigation_options, stage by stage
\* ------------------------------------------------------------------------
ShotsInputs == {None, 1, 100}
ReadoutErrors == {0, READOUT_ERROR_THRESHOLD - 1, READOUT_ERROR_THRESHOLD, 250}
Densities == {0, 700, 3000}

SelCircuits == [scheduled : BOOLEAN, dd_applied : {FALSE}, layout : Layouts]

SelInputs ==
    [shots : ShotsInputs, circuit : SelCircuits, empty : {FALSE},
     metrics_ok : {TRUE}, readout_error : ReadoutErrors,
     crk_density : Densities, ons : {0, 1000}, qubits_used : {1, 2},
     duration : {0, 1, 3, 4}, t2_avg : {0, 2, 5}]
    \cup
    \* an empty circuit, or a backend whose metrics cannot be extracted
    [shots : ShotsInputs, circuit : SelCircuits, empty : BOOLEAN,
     metrics_ok : {FALSE}, readout_error : {250},
     crk_density : {0}, ons : {0}, qubits_used : {1},
     duration : {1}, t2_avg : {5}]

\* get_dd_options reads config.DD_ERROR_THRESHOLD and get_zne_options reads
\* config.TWIRLING_NUM_RANDOMIZATIONS; config.py defines neither, so their
\* values are configuration chosen at the start
Configs == [DD_ERROR_THRESHOLD : {500}, TWIRLING_NUM_RANDOMIZATIONS : {16, 32}]

InitSel ==
    /\ config \in Configs
    /\ sel_in \in SelInputs
    /\ max_readout_error = 0
    /\ max_readout_qubit = [bound |-> FALSE, value |-> None]
    /\ combined_options = NoOptions
    /\ isa_qc_scheduled = NoSelCircuit
    /\ final_circuit = NoSelCircuit
    /\ twirling_fragment = NoOptions
    /\ zne_options = NoOptions
    /\ zne_circuit = NoSelCircuit
    /\ sel_return = [returned |-> FALSE, final_options |-> NoOptions,
                     final_circuit |-> NoSelCircuit]
    /\ pcSel = "start"

\* lines 76-77: if not isa_qc: raise ValueError
SelRejectEmpty ==
    /\ pcSel = "start"
    /\ sel_in.empty
    /\ pcSel' = "raised"
    /\ UNCHANGED <<config, sel_in, max_readout_error, max_readout_qubit,
                   combined_options, isa_qc_scheduled, final_circuit,
                   twirling_fragment, zne_options, zne_circuit, sel_return>>

\* lines 80-102: backend metrics (a failure falls back to 0.0 and leaves
\* max_readout_qubit unassigned), then the base options
SelMetrics ==
    /\ pcSel = "start"
    /\ ~sel_in.empty
    /\ IF sel_in.metrics_ok
       THEN /\ max_readout_error' = sel_in.readout_error
            /\ max_readout_qubit' = [bound |-> TRUE, value |-> 0]
       ELSE /\ max_readout_error' = 0
            /\ UNCHANGED max_readout_qubit
    /\ combined_options' =
           [default_shots |-> sel_in.shots,
            dynamical_decoupling |-> [enable |-> FALSE],
            twirling |-> [enable_gates |-> FALSE, enable_measure |-> FALSE],
            resilience_level |-> 0,
            resilience |-> [measure_mitigation |-> FALSE]]
    /\ pcSel' = "mem"
    /\ UNCHANGED <<config, sel_in, isa_qc_scheduled, final_circuit,
                   twirling_fragment, zne_options, zne_circuit, sel_return>>

\* line 105 reads max_readout_qubit: unbound after a metrics failure
SelMEMRaises ==
    /\ pcSel = "mem"
    /\ ~max_readout_qubit.bound
    /\ pcSel' = "raised"
    /\ UNCHANGED <<config, sel_in, max_readout_error, max_readout_qubit,
                   combined_options, isa_qc_scheduled, final_circuit,
                   twirling_fragment, zne_options, zne_circuit, sel_return>>

\* lines 105-111
SelMEM ==
    /\ pcSel = "mem"
    /\ max_readout_qubit.bound
    /\ LET frag == get_mem_options(max_readout_error, max_readout_qubit.value,
                                   sel_in.shots)
           resilience_dict == frag.resilience_fragment.resilience
           resilience == DictUpdate(combined_options.resilience, resilience_dict)
       IN /\ twirling_fragment' = [twirling |-> frag.twirling]
          /\ combined_options' =
                 [combined_options EXCEPT
                     !.twirling = frag.twirling,
                     !.resilience = resilience,
                     !.resilience_level =
                         IF resilience.measure_mitigation THEN 1 ELSE @]
    /\ pcSel' = "schedule"
    /\ UNCHANGED <<config, sel_in, max_readout_error, max_readout_qubit,
                   isa_qc_scheduled, final_circuit, zne_options, zne_circuit,
                   sel_return>>

\* lines 117-122
SelSchedule ==
    /\ pcSel = "schedule"
    /\ isa_qc_scheduled' = schedule_circuit_if_needed(sel_in.circuit)
    /\ pcSel' = "dd"
    /\ UNCHANGED <<config, sel_in, max_readout_error, max_readout_qubit,
                   combined_options, final_circuit, twirling_fragment,
                   zne_options, zne_circuit, sel_return>>

\* the circuit of the DD stage dropped: always the scheduled circuit
ChooseFinalCircuit_ScheduledOnly(dd_circuit, scheduled) == scheduled

\* line 140: final_circuit = dd_circuit if dd_circuit is not None else isa_qc_scheduled
ChooseFinalCircuit(dd_circuit, scheduled) ==
    IF dd_circuit.present THEN dd_circuit.circuit ELSE scheduled

\* lines 125-140
SelDD ==
    /\ pcSel = "dd"
    /\ LET dd_result == get_dd_options(sel_in.crk_density, config, isa_qc_scheduled)
       IN /\ combined_options' = DictUpdate(combined_options, dd_result.dd_options)
          /\ final_circuit' = ChooseFinalCircuit(dd_result.dd_circuit,
                                                 isa_qc_scheduled)
    /\ pcSel' = "zne"
    /\ UNCHANGED <<config, sel_in, max_readout_error, max_readout_qubit,
                   isa_qc_scheduled, twirling_fragment, zne_options,
                   zne_circuit, sel_return>>

\* line 147: calculate_h_zne divides by avg_t2_time
SelZNERaises ==
    /\ pcSel = "zne"
    /\ HZneRaises(sel_in)
    /\ zne_circuit' = final_circuit
    /\ pcSel' = "raised"
    /\ UNCHANGED <<config, sel_in, max_readout_error, max_readout_qubit,
                   combined_options, isa_qc_scheduled, final_circuit,
                   twirling_fragment, zne_options, sel_return>>

\* the level of the later step replaces the current one
MergeLevel_Overwrite(current_resilience, proposed) == proposed

\* lines 153-156
MergeLevel(current_resilience, proposed) == Max(current_resilience, proposed)

\* lines 147-180
SelZNE ==
    /\ pcSel = "zne"
    /\ ~HZneRaises(sel_in)
    /\ zne_circuit' = final_circuit
    /\ LET zo == get_zne_options(sel_in, config, sel_in.shots)
           res1 == [zne_mitigation |-> zo.zne_mitigation] @@ combined_options.resilience
           res2 == IF zo.zne_mitigation THEN [zne |-> zo.zne] @@ res1 ELSE res1
           tw1 == [enable_gates |-> zo.twirling.enable_gates] @@ combined_options.twirling
           tw2 == IF Truthy(zo.twirling.num_randomizations)
                  THEN [num_randomizations |-> zo.twirling.num_randomizations] @@ tw1
                  ELSE tw1
           tw3 == IF Truthy(zo.twirling.shots_per_randomization)
                  THEN [shots_per_randomization |->
                            zo.twirling.shots_per_randomization] @@ tw2
                  ELSE tw2
       IN /\ zne_options' = zo
          /\ combined_options' =
                 [combined_options EXCEPT
                     !.resilience_level = MergeLevel(@, zo.resilience_level),
                     !.resilience = res2,
                     !.twirling = tw3]
    /\ pcSel' = "finalize"
    /\ UNCHANGED <<config, sel_in, max_readout_error, max_readout_qubit,
                   isa_qc_scheduled, final_circuit, twirling_fragment,
                   sel_return>>

\* lines 186-192
SelReturn ==
    /\ pcSel = "finalize"
    /\ sel_return' = [returned |-> TRUE, final_options |-> combined_options,
                      final_circuit |-> final_circuit]
    /\ pcSel' = "done"
    /\ UNCHANGED <<config, sel_in, max_readout_error, max_readout_qubit,
                   combined_options, isa_qc_scheduled, final_circuit,
                   twirling_fragment, zne_options, zne_circuit>>

InitSelSpec == InitSel /\ DDIdle /\ WinIdle /\ RunIdle /\ LMIdle /\ BMIdle /\ HSIdle /\ NSIdle /\ IdlIdle /\ CFIdle /\ ActIdle
NextSel ==
    \/ SelRejectEmpty /\ UNCHANGED <<ddVars, winVars, runVars, lmVars, bmVars, hsVars, nsVars, idlVars, cfVars, actVars>>
    \/ SelMetrics /\ UNCHANGED <<ddVars, winVars, runVars, lmVars, bmVars, hsVars, nsVars, idlVars, cfVars, actVars>>
    \/ SelMEMRaises /\ UNCHANGED <<ddVars, winVars, runVars, lmVars, bmVars, hsVars, nsVars, idlVars, cfVars, actVars>>
    \/ SelMEM /\ UNCHANGED <<ddVars, winVars, runVars, lmVars, bmVars, hsVars, nsVars, idlVars, cfVars, actVars>>
    \/ SelSchedule /\ UNCHANGED <<ddVars, winVars, runVars, lmVars, bmVars, hsVars, nsVars, idlVars, cfVars, actVars>>
    \/ SelDD /\ UNCHANGED <<ddVars, winVars, runVars, lmVars, bmVars, hsVars, nsVars, idlVars, cfVars, actVars>>
    \/ SelZNERaises /\ UNCHANGED <<ddVars, winVars, runVars, lmVars, bmVars, hsVars, nsVars, idlVars, cfVars, actVars>>
    \/ SelZNE /\ UNCHANGED <<ddVars, winVars, runVars, lmVars, bmVars, hsVars, nsVars, idlVars, cfVars, actVars>>
    \/ SelReturn /\ UNCHANGED <<ddVars, winVars, runVars, lmVars, bmVars, hsVars, nsVars, idlVars, cfVars, actVars>>
SpecSel == InitSelSpec /\ [][NextSel]_vars

\* ------------------------------------------------------------------------
\* The circuit-producing steps together: one run of DynamicalDecoupler.run
\* or one run of select_mitigation_options (schedule_circuit_if_needed and
\* get_dd_options)
\* ------------------------------------------------------------------------
InitCircuitSteps == InitDDSpec \/ InitSelSpec
NextCircuitSteps == NextDD \/ NextSel
SpecCircuitSteps == InitCircuitSteps /\ [][NextCircuitSteps]_vars

AfterMEM == pcSel \in {"schedule", "dd", "zne", "finalize", "done"}
AfterZNE == pcSel \in {"finalize", "done"}

\* ------------------------------------------------------------------------
\* layout_mapping.get_qubit_layout_mapping and _analyze_physical_activity
\* ------------------------------------------------------------------------
IGNORE_OPS == {"barrier", "measure", "reset", "delay"}

\* sorted(...) of a list of qubit indices (insertion sort)
RECURSIVE InsertSorted(_, _)
InsertSorted(x, sq) ==
    IF sq = << >> THEN <<x>>
    ELSE IF x <= Head(sq) THEN <<x>> \o sq
    ELSE <<Head(sq)>> \o InsertSorted(x, Tail(sq))

RECURSIVE Sorted(_)
Sorted(sq) == IF sq = << >> THEN << >> ELSE InsertSorted(Head(sq), Sorted(Tail(sq)))

\* the qubits in the order the instruction gives them
LinkKey_Unsorted(qubits) == qubits

\* lines 27-29 and 40: tuple(sorted(physical_qargs))
LinkKey(qubits) == Sorted(qubits)

\* d.get(k, 0)
DictGet(d, k) == IF k \in DOMAIN d THEN d[k] ELSE 0

\* d[k] = d.get(k, 0) + 1
DictIncr(d, k) == (k :> (DictGet(d, k) + 1)) @@ d

OrderedPairs == {p \in Qubits \X Qubits : p[1] # p[2]}

LMInstrs ==
    {Instr("sx", <<q>>, 0) : q \in Qubits}
    \cup {Instr("measure", <<q>>, 0) : q \in Qubits}
    \cup {Instr("cx", p, 0) : p \in OrderedPairs}
    \cup {Instr("barrier", p, 0) : p \in OrderedPairs}

\* layout.final_index_layout(): per logical qubit its physical qubit (or
\* None), no physical qubit given twice
IndexLayouts ==
    {l \in UNION {[1 .. n -> Qubits \cup {None}] : n \in 0 .. NumQubits} :
        \A i \in DOMAIN l : \A j \in DOMAIN l :
            (i # j /\ l[i] # None) => l[i] # l[j]}

LMLayouts ==
    {NoLayout} \cup {[present |-> TRUE, l2p_list |-> l] : l \in IndexLayouts}

\* {l: p for l, p in enumerate(l2p_list) if p is not None}
LogicalToPhysical(l2p_list) ==
    [l \in {i - 1 : i \in {j \in DOMAIN l2p_list : l2p_list[j] # None}}
        |-> l2p_list[l + 1]]

IsMapped(p) == p # None

\* sorted(list(logical_to_physical_map.values()))
PhysicalQubitsUsed(l2p_list) == Sorted(SelectSeq(l2p_list, IsMapped))

InitLM ==
    /\ circuit \in UNION {[1 .. n -> LMInstrs] : n \in 0 .. MaxOps}
    /\ transpiled_layout \in LMLayouts
    /\ logical_to_physical_map = << >>
    /\ physical_qubits_used = << >>
    /\ lm_results = NoLMResults
    /\ lm_i = 1
    /\ physical_qubit_activity = << >>
    /\ physical_link_activity = << >>
    /\ pcLM = "start"

LMFrame == UNCHANGED <<circuit, transpiled_layout>>

\* if not getattr(transpiled_circuit, "layout", None): return {}
LMNoLayout ==
    /\ pcLM = "start"
    /\ ~transpiled_layout.present
    /\ lm_results' = [NoLMResults EXCEPT !.returned = TRUE]
    /\ pcLM' = "done"
    /\ UNCHANGED <<logical_to_physical_map, physical_qubits_used, lm_i,
                   physical_qubit_activity, physical_link_activity>>
    /\ LMFrame

\* lines 67-76: the map and the used list, both read off the layout
LMReadLayout ==
    /\ pcLM = "start"
    /\ transpiled_layout.present
    /\ logical_to_physical_map' = LogicalToPhysical(transpiled_layout.l2p_list)
    /\ physical_qubits_used' = PhysicalQubitsUsed(transpiled_layout.l2p_list)
    /\ pcLM' = "loop"
    /\ UNCHANGED <<lm_results, lm_i, physical_qubit_activity,
                   physical_link_activity>>
    /\ LMFrame

\* one iteration of "for instruction in circuit.data"
LMStep ==
    /\ pcLM = "loop"
    /\ lm_i <= Len(circuit)
    /\ LET op == circuit[lm_i]
           num_qubits == Len(op.qubits)
           physical_qargs == LinkKey(op.qubits)
       IN IF op.name \in IGNORE_OPS
          THEN UNCHANGED <<physical_qubit_activity, physical_link_activity>>
          ELSE IF num_qubits = 1
          THEN /\ physical_qubit_activity' =
                      DictIncr(physical_qubit_activity, physical_qargs[1])
               /\ UNCHANGED physical_link_activity
          ELSE IF num_qubits = 2
          THEN /\ physical_link_activity' =
                      DictIncr(physical_link_activity, physical_qargs)
               /\ UNCHANGED physical_qubit_activity
          ELSE UNCHANGED <<physical_qubit_activity, physical_link_activity>>
    /\ lm_i' = lm_i + 1
    /\ UNCHANGED <<logical_to_physical_map, physical_qubits_used, lm_results, pcLM>>
    /\ LMFrame

\* _analyze_physical_activity returns its two dicts; lines 83-93 put them
\* into results next to the map and the used list
LMReturn ==
    /\ pcLM = "loop"
    /\ lm_i > Len(circuit)
    /\ lm_results' =
           [returned |-> TRUE, empty |-> FALSE,
            logical_to_physical_map |-> logical_to_physical_map,
            physical_qubits_used |-> physical_qubits_used,
            num_physical_qubits_used |-> Len(physical_qubits_used),
            physical_qubit_activity |-> physical_qubit_activity,
            physical_link_activity |-> physical_link_activity]
    /\ pcLM' = "done"
    /\ UNCHANGED <<logical_to_physical_map, physical_qubits_used, lm_i,
                   physical_qubit_activity, physical_link_activity>>
    /\ LMFrame

InitLMSpec == InitLM /\ DDIdle /\ WinIdle /\ RunIdle /\ SelIdle /\ BMIdle /\ HSIdle /\ NSIdle /\ IdlIdle /\ CFIdle /\ ActIdle
NextLM ==
    \/ LMNoLayout /\ UNCHANGED <<ddVars, winVars, runVars, selVars, bmVars, hsVars, nsVars, idlVars, cfVars, actVars>>
    \/ LMReadLayout /\ UNCHANGED <<ddVars, winVars, runVars, selVars, bmVars, hsVars, nsVars, idlVars, cfVars, actVars>>
    \/ LMStep /\ UNCHANGED <<ddVars, winVars, runVars, selVars, bmVars, hsVars, nsVars, idlVars, cfVars, actVars>>
    \/ LMReturn /\ UNCHANGED <<ddVars, winVars, runVars, selVars, bmVars, hsVars, nsVars, idlVars, cfVars, actVars>>
SpecLM == InitLMSpec /\ [][NextLM]_vars

\* number of the first n instructions that are 2-qubit, not ignored, and act
\* on the unordered pair {a, b}
RECURSIVE TwoQubitOpsOn(_, _, _)
TwoQubitOpsOn(n, a, b) ==
    IF n = 0 THEN 0
    ELSE (IF /\ Len(circuit[n].qubits) = 2
             /\ circuit[n].name \notin IGNORE_OPS
             /\ {circuit[n].qubits[1], circuit[n].qubits[2]} = {a, b}
          THEN 1 ELSE 0)
         + TwoQubitOpsOn(n - 1, a, b)

\* ------------------------------------------------------------------------
\* backend_characterization.extract_backend_metrics
\* ------------------------------------------------------------------------
\* what np.mean gives for an empty list
NaN == -2

EXCLUDE_GATES == {"delay", "reset", "barrier", "measure"}

basis_gates == <<"sx", "cx">>

\* values = [item[0] for item in tracked_list]
Values(tracked_list) == [i \in DOMAIN tracked_list |-> tracked_list[i][1]]

RECURSIVE SumSeq(_)
SumSeq(sq) == IF sq = << >> THEN 0 ELSE Head(sq) + SumSeq(Tail(sq))

\* np.mean, truncated to the fixed-point unit
np_mean(values) ==
    IF values = << >> THEN NaN ELSE SumSeq(values) \div Len(values)

\* np.argmax / np.argmin: the index of the first occurrence of the extreme
np_argmax(values) ==
    CHOOSE i \in DOMAIN values :
        /\ \A j \in DOMAIN values : values[j] <= values[i]
        /\ \A j \in DOMAIN values : j < i => values[j] < values[i]

np_argmin(values) ==
    CHOOSE i \in DOMAIN values :
        /\ \A j \in DOMAIN values : values[j] >= values[i]
        /\ \A j \in DOMAIN values : j < i => values[j] > values[i]

\* the guard of line 24 left out: np.argmax of an empty list raises ValueError
get_worst_metric_NoGuard(tracked_list, find_max) ==
    IF tracked_list = << >>
    THEN [raised |-> TRUE, value |-> 0, location |-> None]
    ELSE LET idx == IF find_max THEN np_argmax(Values(tracked_list))
                    ELSE np_argmin(Values(tracked_list))
         IN [raised |-> FALSE, value |-> tracked_list[idx][1],
             location |-> tracked_list[idx][2]]

\* lines 12-36
get_worst_metric(tracked_list, find_max) ==
    IF tracked_list = << >>
    THEN [raised |-> FALSE, value |-> 0, location |-> None]
    ELSE LET idx == IF find_max THEN np_argmax(Values(tracked_list))
                    ELSE np_argmin(Values(tracked_list))
         IN [raised |-> FALSE, value |-> tracked_list[idx][1],
             location |-> tracked_list[idx][2]]

\* lines 39-53
get_average_metric(tracked_list) ==
    IF tracked_list = << >> THEN 0 ELSE np_mean(Values(tracked_list))

\* what get_qubit_layout_mapping hands to extract_backend_metrics: {} without
\* a layout, else the used list and the keys of physical_link_activity
LayoutDataOf(circ, layout) ==
    IF ~layout.present THEN NoLayoutData
    ELSE [empty |-> FALSE,
          physical_qubits_used |-> PhysicalQubitsUsed(layout.l2p_list),
          used_links |->
              {LinkKey(circ[i].qubits) :
                  i \in {j \in DOMAIN circ : /\ Len(circ[j].qubits) = 2
                                            /\ circ[j].name \notin IGNORE_OPS}}]

\* --- what the backend reports -------------------------------------------
Queries == {"t1", "t2", "readout_error", "readout_length",
            "prob_meas1_prep0", "prob_meas0_prep1"}

T1Of(q) == 300 + q
T2Of(q) == 200 - q
ReadoutErrorOf(q) == 100 + 50 * q
ReadoutLengthOf(q) == 10 + q
P10Of(q) == 80 + q
P01Of(q) == 120 + q
SxErrorOf(q) == 3 + q
SxDurationOf(q) == 2 + q
CxErrorOf(qarg) == IF qarg[1] < qarg[2] THEN 60 ELSE 80
CxDurationOf(qarg) == 8 + qarg[1]

\* properties.<query>(q_idx) raises
QueryRaises(props, q, query) == props.failing = query /\ q \in props.failing_qubits

RECURSIVE SetToSeq(_)
SetToSeq(S) ==
    IF S = {} THEN << >>
    ELSE LET x == CHOOSE y \in S : TRUE IN <<x>> \o SetToSeq(S \ {x})

CxVariants == {"forward", "both", "no_error", "no_props"}

\* target[gate_name].items(): (qarg_tuple, inst_props) in the target's order
TargetItems(tgt, gate_name) ==
    IF gate_name = "sx"
    THEN [i \in 1 .. NumQubits |->
            <<<<i - 1>>,
              [present |-> TRUE,
               error |-> IF tgt.sx_error THEN SxErrorOf(i - 1) ELSE None,
               duration |-> SxDurationOf(i - 1)]>>]
    ELSE IF gate_name = "cx"
    THEN LET fwd == SetToSeq({p \in Qubits \X Qubits : p[1] < p[2]})
             Props(p) == [present |-> tgt.cx # "no_props",
                          error |-> IF tgt.cx = "no_error" THEN None
                                    ELSE CxErrorOf(p),
                          duration |-> CxDurationOf(p)]
         IN IF tgt.cx = "both"
            THEN [i \in 1 .. 2 * Len(fwd) |->
                    LET p == fwd[(i + 1) \div 2]
                        d == IF i % 2 = 1 THEN p ELSE <<p[2], p[1]>>
                    IN <<d, Props(d)>>]
            ELSE [i \in 1 .. Len(fwd) |-> <<fwd[i], Props(fwd[i])>>]
    ELSE << >>

\* d[k][f] = v
SetField(d, k, f, v) == [d EXCEPT ![k] = (f :> v) @@ @]

\* --- inputs ---------------------------------------------------------------
BMInstrs ==
    {Instr("sx", <<q>>, 0) : q \in Qubits}
    \cup {Instr("measure", <<q>>, 0) : q \in Qubits}
    \cup {Instr("cx", p, 0) : p \in {pp \in Qubits \X Qubits : pp[1] < pp[2]}}

BMLayouts ==
    {l \in LMLayouts : \A i \in DOMAIN l.l2p_list : l.l2p_list[i] # None}

\* a query fails for no qubit, for qubit 0 only, or for every qubit
FailingSets == {{}, {0}, Qubits}

BMProperties ==
    {p \in [present : BOOLEAN, failing : Queries \cup {"none"},
            failing_qubits : FailingSets] :
        /\ (~p.present) => p.failing = "none"
        /\ (p.failing = "none") <=> (p.failing_qubits = {})}

BMTargets ==
    {t \in [present : BOOLEAN, sx_error : BOOLEAN, cx : CxVariants] :
        (~t.present) => (~t.sx_error /\ t.cx = "forward")}

InitBM ==
    /\ bm_in \in [circuit : UNION {[1 .. n -> BMInstrs] : n \in 0 .. MaxBMOps},
                  layout : BMLayouts, properties : BMProperties,
                  target : BMTargets]
    /\ layout_data = NoLayoutData
    /\ bm_q = 1
    /\ qubit_data = << >>
    /\ readout_errors_list = << >>
    /\ one_q_errors_list = << >>
    /\ one_q_duration_list = << >>
    /\ t1_relaxation_list = << >>
    /\ t2_dephasing_list = << >>
    /\ p10_error_list = << >>
    /\ p01_error_list = << >>
    /\ link_data = << >>
    /\ two_q_errors_list = << >>
    /\ two_q_duration_list = << >>
    /\ bm_results = NoBMResults
    /\ pcBM = "start"

phys_qubits == layout_data.physical_qubits_used

BMListsB == <<readout_errors_list, one_q_errors_list, one_q_duration_list,
              t1_relaxation_list, t2_dephasing_list, p10_error_list,
              p01_error_list>>
BMListsC == <<link_data, two_q_errors_list, two_q_duration_list>>

\* lines 73-91: layout_data = get_qubit_layout_mapping(transpiled_circuit)
BMStart ==
    /\ pcBM = "start"
    /\ layout_data' = LayoutDataOf(bm_in.circuit, bm_in.layout)
    /\ pcBM' = "qubits"
    /\ UNCHANGED <<bm_in, bm_q, qubit_data, BMListsB, BMListsC, bm_results>>

\* target.get(gate_name, {})[(q_idx,)], when (q_idx,) is among its keys
InstPropsAt(tgt, gate_name, qarg) ==
    LET items == TargetItems(tgt, gate_name)
        at == {i \in DOMAIN items : items[i][1] = qarg}
    IN IF at = {} THEN [present |-> FALSE, error |-> None, duration |-> None]
       ELSE items[CHOOSE i \in at : TRUE][2]

\* lines 177-192: per used 1-qubit gate with an error value, (name, error, duration)
RECURSIVE OneQGateHits(_, _, _)
OneQGateHits(names, tgt, q_idx) ==
    IF names = << >> THEN << >>
    ELSE LET inst_props == InstPropsAt(tgt, Head(names), <<q_idx>>)
             rest == OneQGateHits(Tail(names), tgt, q_idx)
         IN IF inst_props.present /\ inst_props.error # None
            THEN <<<<Head(names), inst_props.error, inst_props.duration>>>> \o rest
            ELSE rest

RECURSIVE GateFields(_)
GateFields(hits) ==
    IF hits = << >> THEN << >>
    ELSE GateFields(Tail(hits))
         @@ ((Head(hits)[1] \o "_error") :> Head(hits)[2])
         @@ ((Head(hits)[1] \o "_duration") :> Head(hits)[3])

AppendIf(tracked_list, ok, value, location) ==
    IF ok THEN Append(tracked_list, <<value, location>>) ELSE tracked_list

FieldIf(ok, key, value) == IF ok THEN key :> value ELSE << >>

\* one iteration of "for q_idx in phys_qubits" (section B); an exception in a
\* try block leaves what the block recorded before it and skips its rest
BMQubit ==
    /\ pcBM = "qubits"
    /\ bm_q <= Len(phys_qubits)
    /\ LET q_idx == phys_qubits[bm_q]
           props == bm_in.properties
           tgt == bm_in.target
           circ == bm_in.circuit
           t1_ok == props.present /\ ~QueryRaises(props, q_idx, "t1")
           t2_ok == t1_ok /\ ~QueryRaises(props, q_idx, "t2")
           ro_ok == props.present /\ ~QueryRaises(props, q_idx, "readout_error")
           rl_ok == ro_ok /\ ~QueryRaises(props, q_idx, "readout_length")
           p10_ok == rl_ok /\ ~QueryRaises(props, q_idx, "prob_meas1_prep0")
           p01_ok == p10_ok /\ ~QueryRaises(props, q_idx, "prob_meas0_prep1")
           used_gates_on_q_idx ==
               IF tgt.present
               THEN {circ[i].name :
                       i \in {j \in DOMAIN circ :
                                /\ Len(circ[j].qubits) = 1
                                /\ circ[j].name \notin EXCLUDE_GATES
                                /\ circ[j].qubits[1] = q_idx}}
               ELSE {}
           hits == OneQGateHits(SetToSeq(used_gates_on_q_idx), tgt, q_idx)
       IN /\ qubit_data' =
                 (q_idx :> (GateFields(hits)
                            @@ FieldIf(p01_ok, "p01", P01Of(q_idx))
                            @@ FieldIf(p10_ok, "p10", P10Of(q_idx))
                            @@ FieldIf(rl_ok, "readout_length", ReadoutLengthOf(q_idx))
                            @@ FieldIf(ro_ok, "readout_error", ReadoutErrorOf(q_idx))
                            @@ FieldIf(t2_ok, "t2", T2Of(q_idx))
                            @@ FieldIf(t1_ok, "t1", T1Of(q_idx))))
                 @@ qubit_data
          /\ t1_relaxation_list' = AppendIf(t1_relaxation_list, t1_ok, T1Of(q_idx), q_idx)
          /\ t2_dephasing_list' = AppendIf(t2_dephasing_list, t2_ok, T2Of(q_idx), q_idx)
          /\ readout_errors_list' =
                 AppendIf(readout_errors_list, ro_ok, ReadoutErrorOf(q_idx), q_idx)
          /\ p10_error_list' = AppendIf(p10_error_list, p10_ok, P10Of(q_idx), q_idx)
          /\ p01_error_list' = AppendIf(p01_error_list, p01_ok, P01Of(q_idx), q_idx)
          /\ one_q_errors_list' =
                 one_q_errors_list \o [i \in DOMAIN hits |-> <<hits[i][2], q_idx>>]
          /\ one_q_duration_list' =
                 one_q_duration_list \o [i \in DOMAIN hits |-> <<hits[i][3], q_idx>>]
    /\ bm_q' = bm_q + 1
    /\ UNCHANGED <<bm_in, layout_data, BMListsC, bm_results, pcBM>>

\* lines 212-233 for the items of one gate
RECURSIVE CollectItems(_, _, _, _)
CollectItems(items, gate_name, used_links, acc) ==
    IF items = << >> THEN acc
    ELSE LET qarg_tuple == Head(items)[1]
             inst_props == Head(items)[2]
             canonical_link == LinkKey(qarg_tuple)
             hit == /\ Len(qarg_tuple) = 2
                    /\ inst_props.present
                    /\ canonical_link \in used_links
             has_error == inst_props.error # None
             has_duration == inst_props.duration # None
             ld0 == IF canonical_link \in DOMAIN acc.link_data THEN acc.link_data
                    ELSE (canonical_link :> << >>) @@ acc.link_data
             ld1 == IF has_error
                    THEN SetField(ld0, canonical_link, gate_name \o "_error",
                                  inst_props.error)
                    ELSE ld0
             ld2 == IF has_duration
                    THEN SetField(ld1, canonical_link, gate_name \o "_duration",
                                  inst_props.duration)
                    ELSE ld1
             next == IF ~hit THEN acc
                     ELSE [link_data |-> ld2,
                           errors |-> AppendIf(acc.errors, has_error,
                                               inst_props.error, canonical_link),
                           durations |-> AppendIf(acc.durations, has_duration,
                                                  inst_props.duration, canonical_link)]
         IN CollectItems(Tail(items), gate_name, used_links, next)

\* for gate_name in results["basis_gates"]
RECURSIVE CollectGates(_, _, _, _)
CollectGates(gates, tgt, used_links, acc) ==
    IF gates = << >> THEN acc
    ELSE CollectGates(Tail(gates), tgt, used_links,
                      CollectItems(TargetItems(tgt, Head(gates)), Head(gates),
                                   used_links, acc))

\* section C, after the loop of section B has ended
BMLinks ==
    /\ pcBM = "qubits"
    /\ bm_q > Len(phys_qubits)
    /\ LET acc0 == [link_data |-> << >>, errors |-> << >>, durations |-> << >>]
           acc == IF bm_in.target.present
                  THEN CollectGates(basis_gates, bm_in.target,
                                    layout_data.used_links, acc0)
                  ELSE acc0
       IN /\ link_data' = acc.link_data
          /\ two_q_errors_list' = acc.errors
          /\ two_q_duration_list' = acc.durations
    /\ pcBM' = "aggregate"
    /\ UNCHANGED <<bm_in, layout_data, bm_q, qubit_data, BMListsB, bm_results>>

\* sections D and E and the return
BMReturn ==
    /\ pcBM = "aggregate"
    /\ LET w_ro == get_worst_metric(readout_errors_list, TRUE)
           w_1q == get_worst_metric(one_q_errors_list, TRUE)
           w_2q == get_worst_metric(two_q_errors_list, TRUE)
           w_p10 == get_worst_metric(p10_error_list, TRUE)
           w_p01 == get_worst_metric(p01_error_list, TRUE)
           w_1qd == get_worst_metric(one_q_duration_list, TRUE)
           w_2qd == get_worst_metric(two_q_duration_list, TRUE)
           w_t1 == get_worst_metric(t1_relaxation_list, FALSE)
           w_t2 == get_worst_metric(t2_dephasing_list, FALSE)
           raised == \/ w_ro.raised \/ w_1q.raised \/ w_2q.raised
                     \/ w_p10.raised \/ w_p01.raised \/ w_1qd.raised
                     \/ w_2qd.raised \/ w_t1.raised \/ w_t2.raised
       IN IF raised
          THEN /\ pcBM' = "raised"
               /\ UNCHANGED bm_results
          ELSE /\ pcBM' = "done"
               /\ bm_results' =
                   [returned |-> TRUE,
                    qubit_properties |-> qubit_data,
                    link_properties |-> link_data,
                    avg_readout_error |-> get_average_metric(readout_errors_list),
                    avg_1q_error |-> get_average_metric(one_q_errors_list),
                    avg_2q_error |-> get_average_metric(two_q_errors_list),
                    avg_1q_duration |-> get_average_metric(one_q_duration_list),
                    avg_2q_duration |-> get_average_metric(two_q_duration_list),
                    avg_t1_time |-> get_average_metric(t1_relaxation_list),
                    avg_t2_time |-> get_average_metric(t2_dephasing_list),
                    avg_p10_error |-> get_average_metric(p10_error_list),
                    avg_p01_error |-> get_average_metric(p01_error_list),
                    max_readout_error |-> w_ro.value,
                    max_readout_qubit |-> w_ro.location,
                    max_1q_error |-> w_1q.value, max_1q_qubit |-> w_1q.location,
                    max_2q_error |-> w_2q.value, max_2q_link |-> w_2q.location,
                    max_p10_error |-> w_p10.value, max_p10_qubit |-> w_p10.location,
                    max_p01_error |-> w_p01.value, max_p01_qubit |-> w_p01.location,
                    max_1q_duration |-> w_1qd.value,
                    max_1q_duration_qubit |-> w_1qd.location,
                    max_2q_duration |-> w_2qd.value,
                    max_2q_duration_link |-> w_2qd.location,
                    min_t1_time |-> w_t1.value, min_t1_qubit |-> w_t1.location,
                    min_t2_time |-> w_t2.value, min_t2_qubit |-> w_t2.location]
    /\ UNCHANGED <<bm_in, layout_data, bm_q, qubit_data, BMListsB, BMListsC>>

InitBMSpec == InitBM /\ DDIdle /\ WinIdle /\ RunIdle /\ SelIdle /\ LMIdle /\ HSIdle /\ NSIdle /\ IdlIdle /\ CFIdle /\ ActIdle
NextBM ==
    \/ BMStart /\ UNCHANGED <<ddVars, winVars, runVars, selVars, lmVars, hsVars, nsVars, idlVars, cfVars, actVars>>
    \/ BMQubit /\ UNCHANGED <<ddVars, winVars, runVars, selVars, lmVars, hsVars, nsVars, idlVars, cfVars, actVars>>
    \/ BMLinks /\ UNCHANGED <<ddVars, winVars, runVars, selVars, lmVars, hsVars, nsVars, idlVars, cfVars, actVars>>
    \/ BMReturn /\ UNCHANGED <<ddVars, winVars, runVars, selVars, lmVars, hsVars, nsVars, idlVars, cfVars, actVars>>
SpecBM == InitBMSpec /\ [][NextBM]_vars

\* ------------------------------------------------------------------------
\* The way of avg_t2_time: one run of extract_backend_metrics, which
\* reports it, or one run of select_mitigation_options, whose ZNE stage
\* divides by it
\* ------------------------------------------------------------------------
InitT2Path == InitBMSpec \/ InitSelSpec
NextT2Path == NextBM \/ NextSel
SpecT2Path == InitT2Path /\ [][NextT2Path]_vars

\* ------------------------------------------------------------------------
\* noise_sensitivity._identify_noise_hotspots
\* ------------------------------------------------------------------------
\* list(d.values()), in the order of the keys
RECURSIVE DictValues(_)
DictValues(d) ==
    IF DOMAIN d = {} THEN << >>
    ELSE LET k == CHOOSE x \in DOMAIN d : TRUE
         IN <<d[k]>> \o DictValues([x \in DOMAIN d \ {k} |-> d[x]])

RECURSIVE SumSquares(_)
SumSquares(sq) ==
    IF sq = << >> THEN 0 ELSE Head(sq) * Head(sq) + SumSquares(Tail(sq))

\* floor of the square root, between lo and hi (lo * lo <= n < hi * hi)
RECURSIVE ISqrtIn(_, _, _)
ISqrtIn(n, lo, hi) ==
    IF hi - lo <= 1 THEN lo
    ELSE LET mid == (lo + hi) \div 2
         IN IF mid * mid <= n THEN ISqrtIn(n, mid, hi) ELSE ISqrtIn(n, lo, mid)

\* The scores are floats, and np.mean and np.std round after every
\* operation.  A float is carried as a count of units of 2^-MantissaBits
\* and has at most MantissaBits significant bits (binary64 has 53); below
\* 2^MantissaBits units the grid is the unit, as for the subnormals.
RECURSIVE Pow2(_)
Pow2(k) == IF k <= 0 THEN 1 ELSE 2 * Pow2(k - 1)

RECURSIVE BitLen(_)
BitLen(k) == IF k <= 0 THEN 0 ELSE 1 + BitLen(k \div 2)

Unit == Pow2(MantissaBits)

\* the spacing of the floats around the value k
Ulp(k) == Pow2(Max(0, BitLen(k) - MantissaBits))

\* the float nearest to a / b, the tie going to the even mantissa
\* (round-to-nearest-even, the rounding of every binary64 operation)
RoundRat(a, b) ==
    LET g == Ulp(a \div b)
        n == a \div (b * g)
        rem == a - n * b * g
    IN IF 2 * rem < b * g THEN n * g
       ELSE IF 2 * rem > b * g THEN (n + 1) * g
       ELSE IF n % 2 = 0 THEN n * g ELSE (n + 1) * g

FAdd(x, y) == RoundRat(x + y, 1)
FAbsDiff(x, y) == RoundRat(IF x >= y THEN x - y ELSE y - x, 1)
FSquare(x) == RoundRat(x * x, Unit)
FDiv(x, n) == RoundRat(x, n)

\* the float nearest to sqrt(x): the square root is x * Unit in units
FSqrt(x) ==
    LET r == ISqrtIn(x * Unit, 0, 46340)
        g == Ulp(r)
        n == r \div g
        mid == (2 * n + 1) * g
    IN IF mid * mid <= 4 * x * Unit /\ ~(mid * mid = 4 * x * Unit /\ n % 2 = 0)
       THEN (n + 1) * g ELSE n * g

\* np.add.reduce over fewer than 8 elements: one addition per element,
\* left to right
RECURSIVE FSum(_)
FSum(sq) ==
    IF sq = << >> THEN 0 ELSE FAdd(FSum(SubSeq(sq, 1, Len(sq) - 1)), sq[Len(sq)])

\* np.mean: the sum divided by the count
float_mean(scores) == FDiv(FSum(scores), Len(scores))

\* np.std: the root of the mean of the squared deviations from np.mean
float_std(scores) ==
    LET arrmean == float_mean(scores)
        x == [i \in DOMAIN scores |-> FSquare(FAbsDiff(scores[i], arrmean))]
    IN FSqrt(FDiv(FSum(x), Len(scores)))

\* lines 176-191: 0.0 unless the list has an element, then
\* float(mean + (1 * std))
Threshold(scores) ==
    IF scores = << >> THEN 0
    ELSE FAdd(float_mean(scores), float_std(scores))

\* score > threshold: the boundary left out
AtOrAbove_Strict(score, t) == score > t

\* lines 197 and 204: score >= threshold
AtOrAbove(score, t) == score >= t

\* lines 165-207; the two lists are returned as the sets of their elements
identify_noise_hotspots(qs, ls) ==
    LET qubit_threshold == Threshold(DictValues(qs))
        link_threshold == Threshold(DictValues(ls))
    IN [returned |-> TRUE,
        qubits |-> {q_idx \in DOMAIN qs : AtOrAbove(qs[q_idx], qubit_threshold)},
        pairs |-> {link \in DOMAIN ls : AtOrAbove(ls[link], link_threshold)}]

\* a score whose mantissa ends in the bits 1010, as that of the binary64
\* 0.1 does: three of them add up to a tie that rounds upwards
TieScore == (Pow2(MantissaBits) - 6) * 32

\* 0.0, 1.0, 10.0 and the score above
ScoreValues == {0, Unit, 10 * Unit, TieScore}

QubitPopulations ==
    UNION {[0 .. (n - 1) -> ScoreValues] : n \in 0 .. MaxPopulation}

\* the link populations stay two resources shorter than the qubit ones
LinkPopulations ==
    UNION {[{<<i, i + 1>> : i \in 0 .. (n - 1)} -> ScoreValues] :
              n \in 0 .. (MaxPopulation - 2)}

InitHS ==
    /\ qubit_sensitivity \in QubitPopulations
    /\ link_sensitivity \in LinkPopulations
    /\ hotspots = NoHotspots
    /\ pcHS = "call"

HSIdentify ==
    /\ pcHS = "call"
    /\ hotspots' = identify_noise_hotspots(qubit_sensitivity, link_sensitivity)
    /\ pcHS' = "done"
    /\ UNCHANGED <<qubit_sensitivity, link_sensitivity>>

InitHSSpec == InitHS /\ DDIdle /\ WinIdle /\ RunIdle /\ SelIdle /\ LMIdle /\ BMIdle /\ NSIdle /\ IdlIdle /\ CFIdle /\ ActIdle
NextHS ==
    \/ HSIdentify /\ UNCHANGED <<ddVars, winVars, runVars, selVars, lmVars, bmVars, nsVars, idlVars, cfVars, actVars>>
SpecHS == InitHSSpec /\ [][NextHS]_vars

\* ------------------------------------------------------------------------
\* noise_sensitivity.calculate_derived_noise_metrics
\* ------------------------------------------------------------------------
\* a / b on Python numbers: ZeroDivisionError for b = 0, else the quotient in
\* units of 1/SCALE
TrueDivide(a, b) ==
    IF b = 0 THEN [raised |-> TRUE, value |-> 0]
    ELSE [raised |-> FALSE, value |-> (a * SCALE) \div b]

\* the guard of line 94 left out
calculate_connectivity_stress_NoGuard(used_links_count, coupling_map_size) ==
    TrueDivide(used_links_count, coupling_map_size)

\* lines 87-98
calculate_connectivity_stress(used_links_count, coupling_map_size) ==
    IF coupling_map_size = 0 THEN [raised |-> FALSE, value |-> 0]
    ELSE TrueDivide(used_links_count, coupling_map_size)

\* key.endswith("_error"), over the keys extract_backend_metrics writes
EndsWithError(key) == key \in {"readout_error", "sx_error", "x_error",
                               "cx_error", "ecr_error"}

\* the readout entries not told apart from the gate entries
MentionsReadout_Never(key) == FALSE

\* "readout" in key
MentionsReadout(key) == key \in {"readout_error", "readout_length"}

RECURSIVE SumOver(_, _)
SumOver(d, S) ==
    IF S = {} THEN 0
    ELSE LET k == CHOOSE x \in S : TRUE IN d[k] + SumOver(d, S \ {k})

\* sum(errors) / len(errors) if errors else 0.0
AverageOver(d, S) == IF S = {} THEN 0 ELSE SumOver(d, S) \div Cardinality(S)

\* lines 101-162
calculate_noise_sensitivity(qubit_activity, link_activity, qubit_props, link_props) ==
    LET QProps(q_idx) == IF q_idx \in DOMAIN qubit_props THEN qubit_props[q_idx]
                         ELSE << >>
        LProps(link) == IF link \in DOMAIN link_props THEN link_props[link]
                        ELSE << >>
        one_q_errors(q_idx) ==
            {key \in DOMAIN QProps(q_idx) :
                /\ EndsWithError(key)
                /\ ~MentionsReadout(key)
                /\ QProps(q_idx)[key] # None
                /\ QProps(q_idx)[key] >= 0}
        two_q_errors(link) ==
            {key \in DOMAIN LProps(link) :
                /\ EndsWithError(key)
                /\ LProps(link)[key] # None
                /\ LProps(link)[key] >= 0}
        qs == [q_idx \in DOMAIN qubit_activity |->
                  qubit_activity[q_idx]
                      * AverageOver(QProps(q_idx), one_q_errors(q_idx))]
        ls == [link \in DOMAIN link_activity |->
                  link_activity[link]
                      * AverageOver(LProps(link), two_q_errors(link))]
    IN [total_sensitivity |-> SumOver(qs, DOMAIN qs) + SumOver(ls, DOMAIN ls),
        qubit_sensitivity |-> qs,
        link_sensitivity |-> ls]

\* --- inputs ---------------------------------------------------------------
Links == {p \in Qubits \X Qubits : p[1] < p[2]}

ActivityCounts == {1, 2}

QubitPropsVariants == {"bare", "readout", "sx", "sx_x"}
LinkPropsVariants == {"bare", "cx", "cx_ecr"}

\* qubit_properties[q] as extract_backend_metrics fills it
QubitPropsOf(variant, q) ==
    IF variant = "bare" THEN << >>
    ELSE IF variant = "readout"
    THEN ("readout_error" :> 150) @@ ("readout_length" :> 10)
    ELSE IF variant = "sx"
    THEN ("readout_error" :> 150) @@ ("sx_error" :> 10 + 10 * q)
         @@ ("sx_duration" :> 2)
    ELSE ("sx_error" :> 10 + 10 * q) @@ ("sx_duration" :> 2)
         @@ ("x_error" :> 30 + 10 * q) @@ ("x_duration" :> 2)

\* link_properties[link]
LinkPropsOf(variant, link) ==
    IF variant = "bare" THEN << >>
    ELSE IF variant = "cx"
    THEN ("cx_error" :> 60) @@ ("cx_duration" :> 8)
    ELSE ("cx_error" :> 60) @@ ("cx_duration" :> 8) @@ ("ecr_error" :> 80)

QubitActivities == UNION {[S -> ActivityCounts] : S \in SUBSET Qubits}
LinkActivities == UNION {[S -> ActivityCounts] : S \in SUBSET Links}

NSInputs ==
    {[layout_data |-> [empty |-> e, physical_qubit_activity |-> qa,
                       physical_link_activity |-> la],
      backend_data |->
          [qubit_properties |-> [q \in Qubits |-> QubitPropsOf(qv, q)],
           link_properties |-> [l \in DOMAIN la |-> LinkPropsOf(lv, l)],
           coupling_map_size |-> c,
           avg_2q_error |-> IF lv = "bare" \/ la = << >> THEN 0
                            ELSE IF lv = "cx" THEN 60 ELSE 70,
           avg_readout_error |-> IF qv \in {"readout", "sx"} THEN 150 ELSE 0]] :
        e \in BOOLEAN, qa \in QubitActivities, la \in LinkActivities,
        qv \in QubitPropsVariants, lv \in LinkPropsVariants,
        c \in 0 .. MaxCouplingMap}

InitNS ==
    /\ ns_in \in {i \in NSInputs :
                    i.layout_data.empty =>
                        /\ i.layout_data.physical_qubit_activity = << >>
                        /\ i.layout_data.physical_link_activity = << >>}
    /\ ns_results = NoNSResults
    /\ pcNS = "stress"

\* lines 28-58: the inputs are read and the connectivity stress is stored
NSStress ==
    /\ pcNS = "stress"
    /\ LET link_activity == ns_in.layout_data.physical_link_activity
           coupling_map_size == ns_in.backend_data.coupling_map_size
           used_links_count == Cardinality(DOMAIN link_activity)
           stress == calculate_connectivity_stress(used_links_count,
                                                   coupling_map_size)
       IN IF stress.raised
          THEN /\ pcNS' = "raised"
               /\ UNCHANGED ns_results
          ELSE /\ pcNS' = "sensitivity"
               /\ ns_results' =
                      [ns_results EXCEPT
                          !.avg_2q_error = ns_in.backend_data.avg_2q_error,
                          !.avg_readout_error = ns_in.backend_data.avg_readout_error,
                          !.connectivity_stress = stress.value]
    /\ UNCHANGED <<ns_in, hsVars>>

\* lines 64-69
NSSensitivity ==
    /\ pcNS = "sensitivity"
    /\ LET r == calculate_noise_sensitivity(
                    ns_in.layout_data.physical_qubit_activity,
                    ns_in.layout_data.physical_link_activity,
                    ns_in.backend_data.qubit_properties,
                    ns_in.backend_data.link_properties)
       IN /\ qubit_sensitivity' = r.qubit_sensitivity
          /\ link_sensitivity' = r.link_sensitivity
          /\ ns_results' = [ns_results EXCEPT
                               !.overall_noise_sensitivity = r.total_sensitivity]
    /\ pcNS' = "hotspots"
    /\ UNCHANGED <<ns_in, hotspots, pcHS>>

\* lines 76-79
NSHotspots ==
    /\ pcNS = "hotspots"
    /\ hotspots' = identify_noise_hotspots(qubit_sensitivity, link_sensitivity)
    /\ ns_results' = [ns_results EXCEPT !.noise_hotspots = hotspots',
                                        !.returned = TRUE]
    /\ pcNS' = "done"
    /\ UNCHANGED <<ns_in, qubit_sensitivity, link_sensitivity, pcHS>>

InitNSSpec == InitNS /\ DDIdle /\ WinIdle /\ RunIdle /\ SelIdle /\ LMIdle /\ BMIdle /\ HSIdle /\ IdlIdle /\ CFIdle /\ ActIdle
NextNS ==
    \/ NSStress /\ UNCHANGED <<ddVars, winVars, runVars, selVars, lmVars, bmVars, idlVars, cfVars, actVars>>
    \/ NSSensitivity /\ UNCHANGED <<ddVars, winVars, runVars, selVars, lmVars, bmVars, idlVars, cfVars, actVars>>
    \/ NSHotspots /\ UNCHANGED <<ddVars, winVars, runVars, selVars, lmVars, bmVars, idlVars, cfVars, actVars>>
SpecNS == InitNSSpec /\ [][NextNS]_vars

\* ------------------------------------------------------------------------
\* qubit_idling.analyze_qubit_idling
\* ------------------------------------------------------------------------
\* lines 13-23
extract_t2_map_from_properties(backend_properties) ==
    LET qubit_props == backend_properties.qubit_properties
    IN [qubit_index \in {q \in DOMAIN qubit_props : DictGet(qubit_props[q], "t2") > 0}
           |-> qubit_props[qubit_index]["t2"]]

\* round(num / den) on non-negative numbers: to the nearest integer, a tie
\* to the even one
RoundHalfEven(num, den) ==
    LET q == num \div den
        r == num % den
    IN IF 2 * r < den THEN q
       ELSE IF 2 * r > den THEN q + 1
       ELSE IF q % 2 = 0 THEN q ELSE q + 1

\* round(num / den, 2), in hundredths
Round2(num, den) == RoundHalfEven(num * 100, den)

\* the elements of a set of qubit indices in ascending order
SortedSeq(S) == Sorted(SetToSeq(S))

\* delay_accumulator.get(qidx, 0) taken as the larger of the two
AccumulateDelay_Max(acc, qidx, duration) ==
    (qidx :> Max(DictGet(acc, qidx), duration)) @@ acc

\* lines 98-100: delay_accumulator[qidx] = delay_accumulator.get(qidx, 0) + duration
AccumulateDelay(acc, qidx, duration) ==
    (qidx :> (DictGet(acc, qidx) + duration)) @@ acc

\* lines 93-100 for the qubits of one instruction
RECURSIVE AccumulateQubits(_, _, _)
AccumulateQubits(acc, qubits, inst) ==
    IF qubits = << >> THEN acc
    ELSE AccumulateQubits(
             IF inst.name = "delay"
             THEN AccumulateDelay(acc, Head(qubits), inst.duration)
             ELSE acc,
             Tail(qubits), inst)

\* --- inputs ---------------------------------------------------------------
IdlDelays == {10, 25}
T2Secs == {200, 400}
DtSecs == {1, 2}

IdlInstrs ==
    {DelayInstr(q, d) : q \in Qubits, d \in IdlDelays}
    \cup {Instr("sx", <<q>>, 0) : q \in Qubits}
    \cup {Instr("cx", p, 0) : p \in Links}

\* backend_prop["qubit_properties"]: an entry per qubit of the layout's used
\* list, with a "t2" field when the T2 query answered
IdlQubitProps ==
    UNION {[S -> {[has_t2 |-> FALSE, t2 |-> 0]}
                 \cup {[has_t2 |-> TRUE, t2 |-> t] : t \in T2Secs}] :
              S \in SUBSET Qubits}

PropsDict(p) == IF p.has_t2 THEN "t2" :> p.t2 ELSE << >>

InitIdl ==
    /\ \E c \in UNION {[1 .. n -> IdlInstrs] : n \in 0 .. MaxIdleOps} :
       \E d \in DtSecs \cup {None} :
       \E qp \in IdlQubitProps :
           idl_in = [circuit |-> c, dt_sec |-> d,
                     qubit_properties |-> [q \in DOMAIN qp |-> PropsDict(qp[q])]]
    /\ t2_map_sec = << >>
    /\ idl_i = 1
    /\ delay_accumulator = << >>
    /\ used_qubit_idxs = {}
    /\ idl_todo = << >>
    /\ result = << >>
    /\ max_ratio_qubit_metrics = NoQubitMetrics
    /\ max_ratio = [num |-> 0, den |-> 1]
    /\ processed_qubit_count = 0
    /\ t2_dt_list = << >>
    /\ delay_dt_list = << >>
    /\ idl_return = NoIdlReturn
    /\ pcIdl = "start"

IdlLocals == <<t2_map_sec, idl_i, delay_accumulator, used_qubit_idxs, idl_todo,
               result, max_ratio_qubit_metrics, max_ratio,
               processed_qubit_count, t2_dt_list, delay_dt_list>>

\* lines 41-44: the backend has no target.dt
IdlNoDt ==
    /\ pcIdl = "start"
    /\ idl_in.dt_sec = None
    /\ pcIdl' = "raised"
    /\ UNCHANGED <<idl_in, IdlLocals, idl_return>>

\* lines 41-52 and 89-90
IdlStart ==
    /\ pcIdl = "start"
    /\ idl_in.dt_sec # None
    /\ t2_map_sec' = extract_t2_map_from_properties(idl_in)
    /\ pcIdl' = "accumulate"
    /\ UNCHANGED <<idl_in, idl_i, delay_accumulator, used_qubit_idxs, idl_todo,
                   result, max_ratio_qubit_metrics, max_ratio,
                   processed_qubit_count, t2_dt_list, delay_dt_list, idl_return>>

\* one iteration of "for inst in isa_qc_scheduled.data"
IdlAccumulate ==
    /\ pcIdl = "accumulate"
    /\ idl_i <= Len(idl_in.circuit)
    /\ LET inst == idl_in.circuit[idl_i]
       IN /\ used_qubit_idxs' =
                 used_qubit_idxs \cup {inst.qubits[k] : k \in DOMAIN inst.qubits}
          /\ delay_accumulator' =
                 AccumulateQubits(delay_accumulator, inst.qubits, inst)
    /\ idl_i' = idl_i + 1
    /\ UNCHANGED <<idl_in, t2_map_sec, idl_todo, result, max_ratio_qubit_metrics,
                   max_ratio, processed_qubit_count, t2_dt_list, delay_dt_list,
                   idl_return, pcIdl>>

\* lines 103-110: the first loop has ended, the second one begins
IdlPrepare ==
    /\ pcIdl = "accumulate"
    /\ idl_i > Len(idl_in.circuit)
    /\ idl_todo' = SortedSeq(used_qubit_idxs)
    /\ pcIdl' = "qubits"
    /\ UNCHANGED <<idl_in, t2_map_sec, idl_i, delay_accumulator, used_qubit_idxs,
                   result, max_ratio_qubit_metrics, max_ratio,
                   processed_qubit_count, t2_dt_list, delay_dt_list, idl_return>>

\* lines 111-112: if qidx not in t2_map_sec: continue
IdlSkipQubit ==
    /\ pcIdl = "qubits"
    /\ idl_todo # << >>
    /\ Head(idl_todo) \notin DOMAIN t2_map_sec
    /\ idl_todo' = Tail(idl_todo)
    /\ UNCHANGED <<idl_in, t2_map_sec, idl_i, delay_accumulator, used_qubit_idxs,
                   result, max_ratio_qubit_metrics, max_ratio,
                   processed_qubit_count, t2_dt_list, delay_dt_list, idl_return,
                   pcIdl>>

\* a ratio equal to max_ratio taken as a new maximum
RatioExceeds_OrEquals(ratio, max) == ratio.num * max.den >= max.num * ratio.den

\* line 131: if ratio > max_ratio
RatioExceeds(ratio, max) == ratio.num * max.den > max.num * ratio.den

\* lines 114-140; the T2 values are whole multiples of dt_sec
IdlQubit ==
    /\ pcIdl = "qubits"
    /\ idl_todo # << >>
    /\ Head(idl_todo) \in DOMAIN t2_map_sec
    /\ LET qidx == Head(idl_todo)
           t2_dt == t2_map_sec[qidx] \div idl_in.dt_sec
           delay_dt == DictGet(delay_accumulator, qidx)
           ratio == IF t2_dt > 0 THEN [num |-> delay_dt, den |-> t2_dt]
                    ELSE [num |-> 0, den |-> 1]
           decoher_err_prob == DecohProb(delay_dt, t2_dt)
           entry == [t2_dt |-> Round2(t2_map_sec[qidx], idl_in.dt_sec),
                     idle_dt |-> delay_dt,
                     decoher_err_prob |-> decoher_err_prob]
       IN /\ processed_qubit_count' = processed_qubit_count + 1
          /\ result' = (qidx :> entry) @@ result
          /\ t2_dt_list' = Append(t2_dt_list, t2_dt)
          /\ delay_dt_list' = Append(delay_dt_list, delay_dt)
          /\ IF RatioExceeds(ratio, max_ratio)
             THEN /\ max_ratio' = ratio
                  /\ max_ratio_qubit_metrics' =
                         [present |-> TRUE, qubit_idx |-> qidx,
                          t2_dt |-> entry.t2_dt, idle_dt |-> delay_dt,
                          decoher_err_prob |-> decoher_err_prob]
             ELSE UNCHANGED <<max_ratio, max_ratio_qubit_metrics>>
    /\ idl_todo' = Tail(idl_todo)
    /\ UNCHANGED <<idl_in, t2_map_sec, idl_i, delay_accumulator, used_qubit_idxs,
                   idl_return, pcIdl>>

\* lines 142-166: the averages, and the dict that is returned; result is not
\* part of it
IdlReturn ==
    /\ pcIdl = "qubits"
    /\ idl_todo = << >>
    /\ LET avg_metrics ==
               IF processed_qubit_count = 0 THEN NoAvgMetrics
               ELSE [t2_dt |-> Round2(SumSeq(t2_dt_list), processed_qubit_count),
                     idle_dt |-> RoundHalfEven(SumSeq(delay_dt_list),
                                               processed_qubit_count),
                     decoher_err_prob |-> DecohProb(SumSeq(delay_dt_list),
                                                    SumSeq(t2_dt_list))]
       IN idl_return' = [returned |-> TRUE, by_qubit |-> << >>,
                         max_ratio_qubit |-> max_ratio_qubit_metrics,
                         overall_average |-> avg_metrics]
    /\ pcIdl' = "done"
    /\ UNCHANGED <<idl_in, IdlLocals>>

InitIdlSpec == InitIdl /\ DDIdle /\ WinIdle /\ RunIdle /\ SelIdle /\ LMIdle /\ BMIdle /\ HSIdle /\ NSIdle /\ CFIdle /\ ActIdle
NextIdl ==
    \/ IdlNoDt /\ UNCHANGED <<ddVars, winVars, runVars, selVars, lmVars, bmVars, hsVars, nsVars, cfVars, actVars>>
    \/ IdlStart /\ UNCHANGED <<ddVars, winVars, runVars, selVars, lmVars, bmVars, hsVars, nsVars, cfVars, actVars>>
    \/ IdlAccumulate /\ UNCHANGED <<ddVars, winVars, runVars, selVars, lmVars, bmVars, hsVars, nsVars, cfVars, actVars>>
    \/ IdlPrepare /\ UNCHANGED <<ddVars, winVars, runVars, selVars, lmVars, bmVars, hsVars, nsVars, cfVars, actVars>>
    \/ IdlSkipQubit /\ UNCHANGED <<ddVars, winVars, runVars, selVars, lmVars, bmVars, hsVars, nsVars, cfVars, actVars>>
    \/ IdlQubit /\ UNCHANGED <<ddVars, winVars, runVars, selVars, lmVars, bmVars, hsVars, nsVars, cfVars, actVars>>
    \/ IdlReturn /\ UNCHANGED <<ddVars, winVars, runVars, selVars, lmVars, bmVars, hsVars, nsVars, cfVars, actVars>>
SpecIdl == InitIdlSpec /\ [][NextIdl]_vars

\* ------------------------------------------------------------------------
\* circuit_features.extract_basic_features
\* ------------------------------------------------------------------------
EXCLUDE_OPS == <<"barrier", "measure", "reset", "delay", "snapshot", "store">>

\* what may follow a prefix in an operation name of the circuits below
NameSuffixes == {""}

\* op.name.startswith(prefixes), prefixes a tuple of strings
StartsWith(name, prefixes) ==
    \E i \in DOMAIN prefixes : \E sfx \in NameSuffixes : name = prefixes[i] \o sfx

\* circuit.count_ops().get(name, 0)
CountOps(circ, name) == Cardinality({i \in DOMAIN circ : circ[i].name = name})

\* the quotient a / b of two counts, as the fraction itself
Ratio(a, b) == [num |-> a, den |-> b]

CFInstrs ==
    {Instr(n, <<q>>, 0) : n \in {"sx", "measure", "delay"}, q \in Qubits}
    \cup {Instr(n, p, 0) : n \in {"cx", "barrier"},
                           p \in {pp \in Qubits \X Qubits : pp[1] < pp[2]}}

InitCF ==
    /\ cf_circuit \in UNION {[1 .. n -> CFInstrs] : n \in 0 .. MaxFeatOps}
    /\ cf_i = 1
    /\ num_1q_gates = 0
    /\ num_2q_gates = 0
    /\ unitary_size = 0
    /\ features = NoFeatures
    /\ pcCF = "loop"

\* lines 38-57: one iteration of "for instruction in circuit.data"
CFCount ==
    /\ pcCF = "loop"
    /\ cf_i <= Len(cf_circuit)
    /\ LET op == cf_circuit[cf_i]
           num_qargs == Len(op.qubits)
       IN IF num_qargs = 2
          THEN /\ num_2q_gates' = num_2q_gates + 1
               /\ unitary_size' = unitary_size + 1
               /\ UNCHANGED num_1q_gates
          ELSE IF num_qargs = 1 /\ ~StartsWith(op.name, EXCLUDE_OPS)
          THEN /\ num_1q_gates' = num_1q_gates + 1
               /\ unitary_size' = unitary_size + 1
               /\ UNCHANGED num_2q_gates
          ELSE UNCHANGED <<num_1q_gates, num_2q_gates, unitary_size>>
    /\ cf_i' = cf_i + 1
    /\ UNCHANGED <<cf_circuit, features, pcCF>>

\* lines 66-75: the final counts, the density and the return
CFReturn ==
    /\ pcCF = "loop"
    /\ cf_i > Len(cf_circuit)
    /\ features' =
           [returned |-> TRUE,
            num_1q_gates |-> num_1q_gates,
            num_2q_gates |-> num_2q_gates,
            density |-> IF (num_1q_gates + num_2q_gates) > 0
                        THEN Ratio(num_2q_gates, num_1q_gates + num_2q_gates)
                        ELSE Ratio(0, 1),
            num_measurements |-> CountOps(cf_circuit, "measure")]
    /\ pcCF' = "done"
    /\ UNCHANGED <<cf_circuit, cf_i, num_1q_gates, num_2q_gates, unitary_size>>

InitCFSpec == InitCF /\ DDIdle /\ WinIdle /\ RunIdle /\ SelIdle /\ LMIdle /\ BMIdle /\ HSIdle /\ NSIdle /\ IdlIdle /\ ActIdle
NextCF ==
    \/ CFCount /\ UNCHANGED <<ddVars, winVars, runVars, selVars, lmVars, bmVars, hsVars, nsVars, idlVars, actVars>>
    \/ CFReturn /\ UNCHANGED <<ddVars, winVars, runVars, selVars, lmVars, bmVars, hsVars, nsVars, idlVars, actVars>>
SpecCF == InitCFSpec /\ [][NextCF]_vars


\* ------------------------------------------------------------------------
\* qubit_idling.analyze_qubit_activity
\* ------------------------------------------------------------------------
IDLE_INSTRUCTIONS == {"barrier", "delay"}

QubitsOf(op) == {op.qubits[k] : k \in DOMAIN op.qubits}

MaxOf(S) == CHOOSE m \in S : \A x \in S : x <= m

\* dag.layers() is greedy: an op node lies one layer past the deepest
\* earlier node it shares a qubit with
RECURSIVE LayerOf(_, _)
LayerOf(circ, i) ==
    LET prev == {j \in 1 .. (i - 1) : QubitsOf(circ[j]) \cap QubitsOf(circ[i]) # {}}
    IN IF prev = {} THEN 1
       ELSE 1 + MaxOf({LayerOf(circ, j) : j \in prev})

\* dag.depth()
DagDepth(circ) ==
    IF circ = << >> THEN 0 ELSE MaxOf({LayerOf(circ, i) : i \in DOMAIN circ})

DagLayers(circ) ==
    [k \in 1 .. DagDepth(circ) |-> {i \in DOMAIN circ : LayerOf(circ, i) = k}]

\* lines 242-258: the duration of an op node in dt; a delay carries its own,
\* a barrier has none, a gate has the one of inst_durations
OpDuration(op) ==
    IF op.name = "delay" THEN op.duration
    ELSE IF op.name = "barrier" THEN 0
    ELSE IF op.name = "sx" THEN 2
    ELSE IF op.name = "cx" THEN 8
    ELSE IF op.name = "measure" THEN 10
    ELSE 0

\* is_measured left out of the test
QubitSkipped_StartOnly(i, measured, started, started_qubits_in_layer) ==
    ~started[i] /\ i \notin started_qubits_in_layer

\* lines 276-283: the two "continue" of the loop over the qubits
QubitSkipped(i, measured, started, started_qubits_in_layer) ==
    \/ measured[i]
    \/ ~started[i] /\ i \notin started_qubits_in_layer

\* round(np.mean(idle_blocks), 2) in hundredths
RoundedMean(blocks) == Round2(SumSeq(blocks), Len(blocks))

\* round(np.std(idle_blocks), 2) in hundredths: the population standard
\* deviation is sqrt(n * sum of squares - sum^2) / n
RoundedStd(blocks) ==
    LET n == Len(blocks)
        var_num == n * SumSquares(blocks) - SumSeq(blocks) * SumSeq(blocks)
    IN (ISqrtIn(40000 * var_num, 0, 46340) + n) \div (2 * n)

ActInstrs ==
    {Instr(n, <<q>>, 0) : n \in {"sx", "measure", "barrier"}, q \in Qubits}
    \cup {Instr("delay", <<q>>, 5) : q \in Qubits}
    \cup {Instr("cx", <<q, q + 1>>, 0) : q \in 0 .. (NumQubits - 2)}

\* section 2 (lines 218-226) for the circuit of act_in
InitAct ==
    /\ act_in \in [circuit : UNION {[1 .. n -> ActInstrs] : n \in 0 .. MaxActOps},
                   durations_ok : BOOLEAN]
    /\ act_layers = << >>
    /\ layer_index = 1
    /\ gate_count_layer = [i \in Qubits |-> 0]
    /\ lifespan_count_layer = [i \in Qubits |-> 0]
    /\ gate_duration_dt = [i \in Qubits |-> 0]
    /\ lifespan_duration_dt = [i \in Qubits |-> 0]
    /\ is_started = [i \in Qubits |-> FALSE]
    /\ is_measured = [i \in Qubits |-> FALSE]
    /\ current_idle_duration_dt = [i \in Qubits |-> 0]
    /\ idle_block_lists = [i \in Qubits |-> << >>]
    /\ act_return = NoActReturn
    /\ pcAct = "start"

ActLists == <<gate_count_layer, lifespan_count_layer, gate_duration_dt,
              lifespan_duration_dt, is_started, is_measured,
              current_idle_duration_dt, idle_block_lists>>

\* lines 195-215: the DAG, the early return of a circuit without layers and
\* the durations of the target
ActBegin ==
    /\ pcAct = "start"
    /\ act_layers' = DagLayers(act_in.circuit)
    /\ IF DagDepth(act_in.circuit) = 0
       THEN /\ act_return' = [NoActReturn EXCEPT !.returned = TRUE]
            /\ pcAct' = "done"
       ELSE IF ~act_in.durations_ok
       THEN /\ pcAct' = "raised"
            /\ UNCHANGED act_return
       ELSE /\ pcAct' = "loop"
            /\ UNCHANGED act_return
    /\ UNCHANGED <<act_in, layer_index, ActLists>>

\* lines 229-298: one layer of the pass
ActLayer ==
    /\ pcAct = "loop"
    /\ layer_index <= Len(act_layers)
    /\ LET ops == {act_in.circuit[n] : n \in act_layers[layer_index]}
           measured_qubits_in_layer ==
               UNION {QubitsOf(op) : op \in {o \in ops : o.name = "measure"}}
           gate_qubits_in_layer ==
               UNION {QubitsOf(op) :
                        op \in {o \in ops : /\ o.name # "measure"
                                           /\ o.name \notin IDLE_INSTRUCTIONS}}
           max_duration_dt_this_layer ==
               MaxOf({0} \cup {OpDuration(op) : op \in ops})
           started_qubits_in_layer ==
               gate_qubits_in_layer \cup measured_qubits_in_layer
           skipped(i) == QubitSkipped(i, is_measured, is_started,
                                      started_qubits_in_layer)
           gate(i) == i \in gate_qubits_in_layer
           meas(i) == i \in measured_qubits_in_layer
           idle1(i) == IF gate(i) THEN 0
                       ELSE current_idle_duration_dt[i] + max_duration_dt_this_layer
           blocks1(i) == IF gate(i) /\ current_idle_duration_dt[i] > 0
                         THEN Append(idle_block_lists[i], current_idle_duration_dt[i])
                         ELSE idle_block_lists[i]
       IN /\ is_started' = [i \in Qubits |-> IF skipped(i) THEN is_started[i] ELSE TRUE]
          /\ lifespan_count_layer' =
                 [i \in Qubits |-> IF skipped(i) THEN lifespan_count_layer[i]
                                   ELSE lifespan_count_layer[i] + 1]
          /\ lifespan_duration_dt' =
                 [i \in Qubits |-> IF skipped(i) THEN lifespan_duration_dt[i]
                                   ELSE lifespan_duration_dt[i]
                                        + max_duration_dt_this_layer]
          /\ gate_count_layer' =
                 [i \in Qubits |-> IF skipped(i) \/ ~gate(i) THEN gate_count_layer[i]
                                   ELSE gate_count_layer[i] + 1]
          /\ gate_duration_dt' =
                 [i \in Qubits |-> IF skipped(i) \/ ~gate(i) THEN gate_duration_dt[i]
                                   ELSE gate_duration_dt[i]
                                        + max_duration_dt_this_layer]
          /\ is_measured' =
                 [i \in Qubits |-> IF skipped(i) THEN is_measured[i]
                                   ELSE is_measured[i] \/ meas(i)]
          /\ idle_block_lists' =
                 [i \in Qubits |->
                     IF skipped(i) THEN idle_block_lists[i]
                     ELSE IF meas(i) /\ idle1(i) > 0
                     THEN Append(blocks1(i), idle1(i))
                     ELSE blocks1(i)]
          /\ current_idle_duration_dt' =
                 [i \in Qubits |->
                     IF skipped(i) THEN current_idle_duration_dt[i]
                     ELSE IF meas(i) THEN 0 ELSE idle1(i)]
    /\ layer_index' = layer_index + 1
    /\ UNCHANGED <<act_in, act_layers, act_return, pcAct>>

\* lines 300-337: the final calculation for the started qubits, the return
ActReturn ==
    /\ pcAct = "loop"
    /\ layer_index > Len(act_layers)
    /\ LET started == {i \in Qubits : is_started[i]}
           idle_blocks(i) ==
               IF current_idle_duration_dt[i] > 0
               THEN Append(idle_block_lists[i], current_idle_duration_dt[i])
               ELSE idle_block_lists[i]
       IN /\ idle_block_lists' = [i \in Qubits |->
                                    IF i \in started THEN idle_blocks(i)
                                    ELSE idle_block_lists[i]]
          /\ act_return' =
               [returned |-> TRUE,
                sparsity_by_layer |->
                    [i \in started |->
                        Ratio(lifespan_count_layer[i] - gate_count_layer[i],
                              lifespan_count_layer[i])],
                sparsity_by_time |->
                    [i \in started |->
                        IF lifespan_duration_dt[i] = 0 THEN Ratio(1, 1)
                        ELSE Ratio(lifespan_duration_dt[i] - gate_duration_dt[i],
                                   lifespan_duration_dt[i])],
                distribution_mean_dt |->
                    [i \in started |->
                        IF idle_blocks(i) = << >> THEN 0
                        ELSE RoundedMean(idle_blocks(i))],
                distribution_sd_dt |->
                    [i \in started |->
                        IF idle_blocks(i) = << >> THEN 0
                        ELSE RoundedStd(idle_blocks(i))]]
    /\ pcAct' = "done"
    /\ UNCHANGED <<act_in, act_layers, layer_index, gate_count_layer,
                   lifespan_count_layer, gate_duration_dt, lifespan_duration_dt,
                   is_started, is_measured, current_idle_duration_dt>>

InitActSpec == InitAct /\ DDIdle /\ WinIdle /\ RunIdle /\ SelIdle /\ LMIdle /\ BMIdle /\ HSIdle /\ NSIdle /\ IdlIdle /\ CFIdle
NextAct ==
    \/ ActBegin /\ UNCHANGED <<ddVars, winVars, runVars, selVars, lmVars, bmVars, hsVars, nsVars, idlVars, cfVars>>
    \/ ActLayer /\ UNCHANGED <<ddVars, winVars, runVars, selVars, lmVars, bmVars, hsVars, nsVars, idlVars, cfVars>>
    \/ ActReturn /\ UNCHANGED <<ddVars, winVars, runVars, selVars, lmVars, bmVars, hsVars, nsVars, idlVars, cfVars>>
SpecAct == InitActSpec /\ [][NextAct]_vars

\* ------------------------------------------------------------------------
\* C1: for every window in which n > 0 pulses are inserted, the durations
\* of all emitted sub-delays plus n pulse durations add up to T_idle.
\* ------------------------------------------------------------------------
DurationPreserved ==
    pcWin = "built" =>
        SumDur(winOut) + winN * win.d_x = win.T_idle

\* ------------------------------------------------------------------------
\* C5: the resilience level never decreases from one pipeline step to the
\* next, and once the ZNE step has run it is the maximum level implied by
\* the enabled techniques: 2 with ZNE, else 1 with MEM, else 0.
\* ------------------------------------------------------------------------
ImpliedLevel(o) ==
    IF o.resilience.zne_mitigation THEN 2
    ELSE IF o.resilience.measure_mitigation THEN 1 ELSE 0

MemThresholdIff ==
    AfterMEM =>
        /\ twirling_fragment.twirling.enable_measure
               = (max_readout_error >= READOUT_ERROR_THRESHOLD)
        /\ combined_options.resilience.measure_mitigation
               = (max_readout_error >= READOUT_ERROR_THRESHOLD)

\* the boundary value itself, with both flags set
MemThresholdWitness ==
    /\ AfterMEM
    /\ max_readout_error = READOUT_ERROR_THRESHOLD
    /\ twirling_fragment.twirling.enable_measure
    /\ combined_options.resilience.measure_mitigation

\* ------------------------------------------------------------------------
\* C7: with MEM enabled, shots_per_randomization is
\* ceil(total_shots / NUM_RANDOMIZATIONS) in the twirling bundle and in the
\* measure_noise_learning bundle, and num_randomizations is the constant.
\* ------------------------------------------------------------------------
MemShotsPerRandomization ==
    (AfterMEM /\ combined_options.resilience.measure_mitigation) =>
        LET expected == CeilDiv(ShotsValue(sel_in.shots), NUM_RANDOMIZATIONS)
            learning == combined_options.resilience.measure_noise_learning
        IN /\ twirling_fragment.twirling.shots_per_randomization = expected
           /\ twirling_fragment.twirling.num_randomizations = NUM_RANDOMIZATIONS
           /\ learning.shots_per_randomization = expected
           /\ learning.num_randomizations = NUM_RANDOMIZATIONS

\* ------------------------------------------------------------------------
\* C8: get_zne_options enables ZNE exactly when
\* ZNE_MIN_THRESHOLD <= h_zne <= ZNE_MAX_THRESHOLD (both ends included);
\* enabled: level 2, the configured amplifier, noise factors and
\* extrapolator, gate twirling on; disabled: level 0, zne_mitigation False,
\* gate twirling off.
\* ------------------------------------------------------------------------
HZneInClosedInterval ==
    /\ ZNE_MIN_THRESHOLD * sel_in.t2_avg
           <= sel_in.ons * sel_in.t2_avg
              + sel_in.qubits_used * sel_in.duration * SCALE
    /\ sel_in.ons * sel_in.t2_avg + sel_in.qubits_used * sel_in.duration * SCALE
           <= ZNE_MAX_THRESHOLD * sel_in.t2_avg

CanonicalLinks ==
    /\ \A k \in DOMAIN physical_link_activity :
           Len(k) = 2 /\ k[1] < k[2]
    /\ \A a \in Qubits : \A b \in Qubits :
           a < b => DictGet(physical_link_activity, <<a, b>>)
                        = TwoQubitOpsOn(lm_i - 1, a, b)

\* a returned analysis of a circuit with a gate on (a,b) and one on (b,a),
\* both counted under <<a, b>>
CanonicalLinksWitness ==
    /\ pcLM = "done"
    /\ \E i \in DOMAIN circuit : \E j \in DOMAIN circuit :
           /\ circuit[i].name = "cx" /\ circuit[j].name = "cx"
           /\ circuit[i].qubits = <<0, 1>>
           /\ circuit[j].qubits = <<1, 0>>
    /\ DictGet(physical_link_activity, <<0, 1>>) >= 2

\* ------------------------------------------------------------------------
\* C11: in the dict get_qubit_layout_mapping returns, a physical qubit with
\* no instruction on it in the circuit has no entry in
\* physical_qubit_activity (count 0) and is not in physical_qubits_used.
\* ------------------------------------------------------------------------
InstructionsOn(q) == {i \in DOMAIN circuit : \E k \in DOMAIN circuit[i].qubits :
                                                circuit[i].qubits[k] = q}

SeqRange(sq) == {sq[i] : i \in DOMAIN sq}

UntouchedQubitUnused ==
    (lm_results.returned /\ ~lm_results.empty) =>
        \A q \in Qubits :
            InstructionsOn(q) = {} =>
                /\ q \notin DOMAIN lm_results.physical_qubit_activity
                /\ q \notin SeqRange(lm_results.physical_qubits_used)

\* ------------------------------------------------------------------------
\* C12: extract_backend_metrics never ends in an exception of its
\* aggregation, and in what it returns every avg_*, max_* and min_* value
\* whose list of present values is empty is exactly 0 (not NaN), with owner
\* None for the worst-case values.
\* ------------------------------------------------------------------------
EmptyAggregateZero(tracked_list, avg, worst, owner) ==
    tracked_list = << >> => (avg = 0 /\ worst = 0 /\ owner = None)

MeanPlusStdAtMost(d, x) ==
    x >= FAdd(float_mean(DictValues(d)), float_std(DictValues(d)))

UsedLinksCount == Cardinality(DOMAIN ns_in.layout_data.physical_link_activity)

ConnectivityStressRatio ==
    /\ pcNS # "raised"
    /\ pcNS \in {"sensitivity", "hotspots", "done"} =>
        LET total == ns_in.backend_data.coupling_map_size
            stress == ns_results.connectivity_stress
        IN /\ total = 0 => stress = 0
           /\ total # 0 =>
                  /\ stress * total <= UsedLinksCount * SCALE
                  /\ UsedLinksCount * SCALE < (stress + 1) * total

\* a backend reporting 0 links under a circuit that uses a link
ConnectivityStressWitness ==
    /\ pcNS = "done"
    /\ ns_results.returned
    /\ ns_in.backend_data.coupling_map_size = 0
    /\ UsedLinksCount > 0
    /\ ns_results.connectivity_stress = 0

\* ------------------------------------------------------------------------
\* C15: in analyze_qubit_idling the idle duration of a physical qubit is
\* the sum of the durations of all delay instructions on it (not the
\* longest one), and 0 for a touched qubit without a delay; this is the
\* idle_dt of the qubit's entry.
\* ------------------------------------------------------------------------
RECURSIVE DelaySumOn(_, _)
DelaySumOn(n, q) ==
    IF n = 0 THEN 0
    ELSE (IF /\ idl_in.circuit[n].name = "delay"
             /\ \E k \in DOMAIN idl_in.circuit[n].qubits :
                    idl_in.circuit[n].qubits[k] = q
          THEN idl_in.circuit[n].duration ELSE 0)
         + DelaySumOn(n - 1, q)

TouchedQubits ==
    {q \in Qubits : \E i \in DOMAIN idl_in.circuit :
                        \E k \in DOMAIN idl_in.circuit[i].qubits :
                            idl_in.circuit[i].qubits[k] = q}

CalibratedQubits ==
    {q \in DOMAIN idl_in.qubit_properties :
        DictGet(idl_in.qubit_properties[q], "t2") > 0}

ReportHasPerQubitEntries ==
    idl_return.returned =>
        /\ DOMAIN idl_return.by_qubit = TouchedQubits \cap CalibratedQubits
        /\ \A q \in DOMAIN idl_return.by_qubit :
               /\ idl_return.by_qubit[q].t2_dt
                      = Round2(idl_in.qubit_properties[q]["t2"], idl_in.dt_sec)
               /\ idl_return.by_qubit[q].idle_dt
                      = DelaySumOn(Len(idl_in.circuit), q)
        /\ processed_qubit_count = Cardinality(TouchedQubits \cap CalibratedQubits)
        /\ Len(t2_dt_list) = processed_qubit_count

\* ------------------------------------------------------------------------
\* C17: select_mitigation_options runs backend characterization, the MEM
\* selector, scheduling, the DD selector and the ZNE selector in this
\* order, each writing its own locals only in its turn; the ZNE selector
\* is called on the circuit the DD stage put out (the DD-rewritten
\* circuit when the density reaches the DD threshold, else the scheduled
\* circuit), and this circuit is the returned final_circuit.
\* ------------------------------------------------------------------------
StageOrder ==
    {<<"start", "mem">>, <<"mem", "schedule">>, <<"schedule", "dd">>,
     <<"dd", "zne">>, <<"zne", "finalize">>, <<"finalize", "done">>,
     <<"start", "raised">>, <<"mem", "raised">>, <<"zne", "raised">>}

DDStageOutput ==
    IF sel_in.crk_density >= config.DD_ERROR_THRESHOLD
    THEN [isa_qc_scheduled EXCEPT !.dd_applied = TRUE]
    ELSE isa_qc_scheduled

InitializedByAnyOperation ==
    \A i \in DOMAIN isa_qc :
        i < node =>
            /\ isa_qc[i].name # "delay" =>
                   \A k \in DOMAIN isa_qc[i].qubits :
                       isa_qc[i].qubits[k] \in qubits_initialized
            /\ (/\ isa_qc[i].name = "delay"
                /\ ~PreInitDelay(i)
                /\ isa_qc[i].qubits[1] \in DOMAIN t2_map
                /\ calculate_dd_pulses(isa_qc[i].duration,
                                       t2_map[isa_qc[i].qubits[1]],
                                       target_x[isa_qc[i].qubits[1]],
                                       min_sequence_length) # None)
               => dag[i] # <<isa_qc[i]>>

\* candidate n passes the three checks of the search on the window
CandidateAccepted(n) ==
    /\ n * win.d_x + (3 * n + 1) * D_min_delay <= win.T_idle
    /\ n * win.e_x < 2 * DecohProb(win.T_idle, (4 * n + 1) * win.T2)
    /\ n <= MAX_N_PI

\* the pulse count of the window: 0 stands for "leave the window alone"
PulseCount == IF winN = None THEN 0 ELSE winN

\* ------------------------------------------------------------------------
\* C19: the pulse count _calculate_dd_pulses gives is 0 (window left
\* alone) or a positive multiple of L not above the cap; every multiple
\* of L up to it passed the time, gate-error and cap checks; and when the
\* search was entered, the next multiple of L fails one of them.
\* ------------------------------------------------------------------------
LastAcceptedCandidate ==
    pcWin # "start" =>
        /\ PulseCount >= 0
        /\ PulseCount % win.L = 0
        /\ PulseCount <= MAX_N_PI
        /\ \A k \in 1 .. (PulseCount \div win.L) : CandidateAccepted(k * win.L)
        /\ (win.has_x /\ DecohProb(win.T_idle, win.T2) >= T2_THRESHOLD_RATIO)
               => ~CandidateAccepted(PulseCount + win.L)

\* two single pulses were accepted one after the other, the third
\* candidate was refused
LastAcceptedWitness ==
    /\ pcWin = "built"
    /\ win.L = 1
    /\ winN = 2
    /\ CandidateAccepted(1)
    /\ ~CandidateAccepted(3)

EntriesAt(tracked_list, location) ==
    Cardinality({i \in DOMAIN tracked_list : tracked_list[i][2] = location})

\* ------------------------------------------------------------------------
\* C21: a used link is never double-counted: for the two-qubit gate of the
\* basis (cx) every canonical link has at most one entry in the 2Q error
\* list and at most one in the 2Q duration list, also when the target
\* calibrates the gate for both directions of the link.
\* ------------------------------------------------------------------------
LinkCountedOnce ==
    pcBM \in {"aggregate", "done"} =>
        \A l \in layout_data.used_links :
            /\ EntriesAt(two_q_errors_list, l) <= 1
            /\ EntriesAt(two_q_duration_list, l) <= 1

\* the qubits whose iteration of section B is over
ProcessedQubits == {phys_qubits[i] : i \in 1 .. (bm_q - 1)}

\* the query is answered for the qubit: properties exist and it does not raise
Answered(q, query) ==
    bm_in.properties.present /\ ~QueryRaises(bm_in.properties, q, query)

\* ------------------------------------------------------------------------
\* C22: a failing calibration query omits only the field it was fetching:
\* for every processed qubit each of t1, t2, readout_error, readout_length,
\* p10 and p01 is recorded exactly when its own query is answered, with
\* one entry in its aggregate list when it has one, and
\* extract_backend_metrics does not raise.
\* ------------------------------------------------------------------------
FailedQueryOmitsOnlyItsField ==
    /\ pcBM # "raised"
    /\ pcBM \in {"qubits", "aggregate", "done"} =>
        \A q \in ProcessedQubits :
            /\ ("t1" \in DOMAIN qubit_data[q]) <=> Answered(q, "t1")
            /\ ("t2" \in DOMAIN qubit_data[q]) <=> Answered(q, "t2")
            /\ ("readout_error" \in DOMAIN qubit_data[q])
                   <=> Answered(q, "readout_error")
            /\ ("readout_length" \in DOMAIN qubit_data[q])
                   <=> Answered(q, "readout_length")
            /\ ("p10" \in DOMAIN qubit_data[q]) <=> Answered(q, "prob_meas1_prep0")
            /\ ("p01" \in DOMAIN qubit_data[q]) <=> Answered(q, "prob_meas0_prep1")
            /\ EntriesAt(t1_relaxation_list, q) = IF Answered(q, "t1") THEN 1 ELSE 0
            /\ EntriesAt(t2_dephasing_list, q) = IF Answered(q, "t2") THEN 1 ELSE 0
            /\ EntriesAt(readout_errors_list, q)
                   = IF Answered(q, "readout_error") THEN 1 ELSE 0
            /\ EntriesAt(p10_error_list, q)
                   = IF Answered(q, "prob_meas1_prep0") THEN 1 ELSE 0
            /\ EntriesAt(p01_error_list, q)
                   = IF Answered(q, "prob_meas0_prep1") THEN 1 ELSE 0

\* the operations of the circuit on n qubits that carry none of the excluded
\* names
UnitaryOpsOn(n) ==
    {i \in DOMAIN cf_circuit :
        /\ Len(cf_circuit[i].qubits) = n
        /\ cf_circuit[i].name \notin
               {"barrier", "measure", "reset", "delay", "snapshot", "store"}}

\* ------------------------------------------------------------------------
\* C23: num_1q_gates and num_2q_gates count only the operations, on one
\* and on two qubits, that are not barrier, measure, reset, delay,
\* snapshot or store, and 2q_gate_density is num_2q_gates over their sum,
\* 0.0 when both are zero.
\* ------------------------------------------------------------------------
GateCountsExcludeNonUnitary ==
    features.returned =>
        /\ features.num_1q_gates = Cardinality(UnitaryOpsOn(1))
        /\ features.num_2q_gates = Cardinality(UnitaryOpsOn(2))
        /\ features.density =
               IF Cardinality(UnitaryOpsOn(1)) + Cardinality(UnitaryOpsOn(2)) = 0
               THEN [num |-> 0, den |-> 1]
               ELSE [num |-> Cardinality(UnitaryOpsOn(2)),
                     den |-> Cardinality(UnitaryOpsOn(1))
                             + Cardinality(UnitaryOpsOn(2))]

\* the average of the entries of props under the given keys, 0 without any
OwnAverage(props, keys) ==
    LET S == DOMAIN props \cap keys
    IN IF S = {} THEN 0 ELSE SumOver(props, S) \div Cardinality(S)

QubitGateErrorKeys == {"sx_error", "x_error"}
LinkGateErrorKeys == {"cx_error", "ecr_error"}

StartsIn(k, q) ==
    \E n \in act_layers[k] :
        /\ \E j \in DOMAIN act_in.circuit[n].qubits : act_in.circuit[n].qubits[j] = q
        /\ act_in.circuit[n].name \notin {"barrier", "delay"}

\* layer k holds a measurement of qubit q
MeasuredIn(k, q) ==
    \E n \in act_layers[k] :
        /\ act_in.circuit[n].name = "measure"
        /\ act_in.circuit[n].qubits[1] = q

\* layer k lies before the start of q's lifespan or after its first measurement
OutsideLifespan(k, q) ==
    \/ \A j \in 1 .. k : ~StartsIn(j, q)
    \/ \E j \in 1 .. (k - 1) : MeasuredIn(j, q)

\* no step changes the counters of q
CountersKept(q) ==
    /\ lifespan_count_layer'[q] = lifespan_count_layer[q]
    /\ lifespan_duration_dt'[q] = lifespan_duration_dt[q]
    /\ gate_count_layer'[q] = gate_count_layer[q]
    /\ gate_duration_dt'[q] = gate_duration_dt[q]
    /\ current_idle_duration_dt'[q] = current_idle_duration_dt[q]
    /\ idle_block_lists'[q] = idle_block_lists[q]

\* ------------------------------------------------------------------------
\* C25: a qubit's lifespan runs from the first layer with a gate or a
\* measurement on it to the layer of its first measurement: a layer
\* outside it changes none of the qubit's lifespan, gate-count,
\* gate-duration and idle-block counters, a layer inside it counts once
\* in the lifespan, and a qubit that never starts is in none of the four
\* returned maps.
\* ------------------------------------------------------------------------
LifespanBounded ==
    [][/\ (pcAct = "loop" /\ layer_index' = layer_index + 1) =>
              \A q \in Qubits :
                  IF OutsideLifespan(layer_index, q)
                  THEN CountersKept(q)
                  ELSE lifespan_count_layer'[q] = lifespan_count_layer[q] + 1
       /\ (pcAct = "loop" /\ pcAct' = "done") =>
              \A q \in Qubits :
                  (\/ \A k \in DOMAIN act_layers : ~StartsIn(k, q)
                   \/ \E k \in DOMAIN act_layers : MeasuredIn(k, q))
                      => CountersKept(q)
       /\ act_return'.returned =>
              \A q \in Qubits :
                  (\A k \in DOMAIN act_layers : ~StartsIn(k, q)) =>
                      /\ q \notin DOMAIN act_return'.sparsity_by_layer
                      /\ q \notin DOMAIN act_return'.sparsity_by_time
                      /\ q \notin DOMAIN act_return'.distribution_mean_dt
                      /\ q \notin DOMAIN act_return'.distribution_sd_dt]_vars

\* qubit 0 idles in the first layer, is measured in the second and gets a
\* gate in the third; qubit 1 never starts
LifespanWitness ==
    /\ pcAct = "done"
    /\ act_return.returned
    /\ Len(act_layers) = 3
    /\ ~StartsIn(1, 0)
    /\ MeasuredIn(2, 0)
    /\ StartsIn(3, 0)
    /\ lifespan_count_layer[0] = 1
    /\ gate_count_layer[0] = 0
    /\ DOMAIN act_return.sparsity_by_layer = {0}

\* ------------------------------------------------------------------------
\* C26: in a window where _calculate_dd_pulses accepts n > 0 pulses,
\* n * d_x + (3n + 1) <= T_idle, and every delay of the replacement
\* circuit (the first, the ones between pulses, the last) lasts at least
\* 1 dt.
\* ------------------------------------------------------------------------
SubDelaysPositive ==
    pcWin = "built" =>
        /\ winN > 0
        /\ winN * win.d_x + (3 * winN + 1) <= win.T_idle
        /\ Len(winOut) = 2 * winN + 1
        /\ \A i \in DOMAIN winOut :
               winOut[i].name = "delay" => winOut[i].duration >= 1

\* two pulses in a window that has just the time they need
SubDelaysWitness ==
    /\ pcWin = "built"
    /\ winN = 2
    /\ winN * win.d_x + (3 * winN + 1) = win.T_idle
    /\ winOut[1].name = "delay"
    /\ winOut[1].duration = 1
    /\ winOut[3].name = "delay"
    /\ winOut[5].name = "delay"

\* the qubits the second loop of analyze_qubit_idling processes
IdlProcessed == TouchedQubits \cap CalibratedQubits

\* the idle/T2 ratio of p is at most the one of q (same dt for both)
RatioAtMost(p, q) ==
    DelaySumOn(Len(idl_in.circuit), p) * idl_in.qubit_properties[q]["t2"]
        <= DelaySumOn(Len(idl_in.circuit), q) * idl_in.qubit_properties[p]["t2"]

\* ------------------------------------------------------------------------
\* C27: max_ratio_qubit is the first processed qubit (in the order of the
\* loop, ascending index) that attains the largest idle/T2 ratio; when no
\* processed qubit has a ratio above 0 it is the empty record, without
\* qubit index and decoherence probability; overall_average is filled in
\* either case: zeros without processed qubits, else their averages.
\* ------------------------------------------------------------------------
MaxRatioIsFirstMaximum ==
    idl_return.returned =>
        /\ IF \E q \in IdlProcessed : DelaySumOn(Len(idl_in.circuit), q) > 0
           THEN /\ idl_return.max_ratio_qubit.present
                /\ idl_return.max_ratio_qubit.qubit_idx \in IdlProcessed
                /\ \A p \in IdlProcessed :
                       /\ RatioAtMost(p, idl_return.max_ratio_qubit.qubit_idx)
                       /\ RatioAtMost(idl_return.max_ratio_qubit.qubit_idx, p)
                              => idl_return.max_ratio_qubit.qubit_idx <= p
                /\ idl_return.max_ratio_qubit.idle_dt
                       = DelaySumOn(Len(idl_in.circuit),
                                    idl_return.max_ratio_qubit.qubit_idx)
           ELSE idl_return.max_ratio_qubit = NoQubitMetrics
        /\ IF IdlProcessed = {}
           THEN idl_return.overall_average = NoAvgMetrics
           ELSE idl_return.overall_average.t2_dt > 0

\* two processed qubits with the same ratio above 0: the first one is kept
MaxRatioTieWitness ==
    /\ idl_return.returned
    /\ IdlProcessed = {0, 1}
    /\ DelaySumOn(Len(idl_in.circuit), 0) > 0
    /\ RatioAtMost(0, 1)
    /\ RatioAtMost(1, 0)
    /\ idl_return.max_ratio_qubit.present
    /\ idl_return.max_ratio_qubit.qubit_idx = 0

AllEqual(d) == \A j, k \in DOMAIN d : d[j] = d[k]

EqualScoresAllHotspots ==
    hotspots.returned =>
        /\ (DOMAIN qubit_sensitivity # {} /\ AllEqual(qubit_sensitivity)) =>
               /\ float_std(DictValues(qubit_sensitivity)) = 0
               /\ hotspots.qubits = DOMAIN qubit_sensitivity
        /\ (DOMAIN link_sensitivity # {} /\ AllEqual(link_sensitivity)) =>
               /\ float_std(DictValues(link_sensitivity)) = 0
               /\ hotspots.pairs = DOMAIN link_sensitivity

====
